---- MODULE Spec2Model ----
(***************************************************************************)
(* Model of the dbt profile editor of brix: the pydantic document model    *)
(* (modules/dbt/profile/models.py) and the CRUD operations on it           *)
(* (modules/dbt/profile/editor.py).                                        *)
(*                                                                         *)
(* Representation.                                                         *)
(*  - A Python dict is an insertion-ordered sequence of [k, v] entries.    *)
(*  - A plain YAML/Python value (what yaml.safe_load returns and           *)
(*    yaml.dump takes) is a tagged node: [str |-> s], [int |-> n],         *)
(*    [seq |-> <<...>>], [map |-> dict], [null |-> TRUE].                  *)
(*  - Optional[T] is <<>> for None and <<v>> for a value v.                *)
(*  - A str is a TLA+ string, except the values of host and http_path, on  *)
(*    which the code tests prefixes: those are sequences of tokens,        *)
(*    "https://x" being <<"https://", "x">>.                               *)
(*  - Model instances live in a heap and are referred to by index, since   *)
(*    Python passes and stores them by reference.                          *)
(*  - A Path is the sequence of its components; the file system is the     *)
(*    set of directories that exist and the text of every file.            *)
(***************************************************************************)
EXTENDS Integers, Sequences, FiniteSets, TLC

VARIABLES doc, prev, last, steps, disk

vars == <<doc, prev, last, steps, disk>>

(***************************************************************************)
(* Python dict: insertion-ordered mapping                                  *)
(***************************************************************************)
EmptyDict == <<>>

Entry(key, val) == [k |-> key, v |-> val]

Keys(d) == [i \in 1..Len(d) |-> d[i].k]

KeySet(d) == {d[i].k : i \in 1..Len(d)}

Has(d, key) == \E i \in 1..Len(d) : d[i].k = key

Get(d, key) == d[CHOOSE i \in 1..Len(d) : d[i].k = key].v

Put(d, key, val) ==
    IF Has(d, key)
    THEN [i \in 1..Len(d) |-> IF d[i].k = key THEN Entry(key, val) ELSE d[i]]
    ELSE Append(d, Entry(key, val))

Del(d, key) == SelectSeq(d, LAMBDA e : e.k # key)

(***************************************************************************)
(* Plain values and Optional                                               *)
(***************************************************************************)
None == <<>>

Some(v) == <<v>>

StrV(s) == [str |-> s]

IntV(n) == [int |-> n]

ListV(s) == [seq |-> s]

MapV(d) == [map |-> d]

NullV == [null |-> TRUE]

IsStr(n) == DOMAIN n = {"str"}

IsInt(n) == DOMAIN n = {"int"}

IsList(n) == DOMAIN n = {"seq"}

IsMap(n) == DOMAIN n = {"map"}

IsNull(n) == DOMAIN n = {"null"}

(***************************************************************************)
(* models.py: field validation helpers (pydantic, lax mode restricted to   *)
(* the value kinds above)                                                  *)
(***************************************************************************)
\* The keys of d that are no declared field: kept as extra (extra="allow").
ExtraOf(d, known) == SelectSeq(d, LAMBDA e : e.k \notin known)

\* A str field with a default.
StrField(d, key, default) ==
    IF ~Has(d, key) THEN [ok |-> TRUE, val |-> default]
    ELSE IF IsStr(Get(d, key)) THEN [ok |-> TRUE, val |-> Get(d, key).str]
    ELSE [ok |-> FALSE, val |-> default]

\* An int field with a default.
IntField(d, key, default) ==
    IF ~Has(d, key) THEN [ok |-> TRUE, val |-> default]
    ELSE IF IsInt(Get(d, key)) THEN [ok |-> TRUE, val |-> Get(d, key).int]
    ELSE [ok |-> FALSE, val |-> default]

\* A required str field.
ReqStrField(d, key) ==
    IF Has(d, key) /\ IsStr(Get(d, key))
    THEN [ok |-> TRUE, val |-> Get(d, key).str]
    ELSE [ok |-> FALSE, val |-> ""]

\* A field of type str | None = None.
OptStrField(d, key) ==
    IF ~Has(d, key) \/ IsNull(Get(d, key)) THEN [ok |-> TRUE, val |-> None]
    ELSE IF IsStr(Get(d, key)) THEN [ok |-> TRUE, val |-> Some(Get(d, key).str)]
    ELSE [ok |-> FALSE, val |-> None]

\* A field of type int | None = None.
OptIntField(d, key) ==
    IF ~Has(d, key) \/ IsNull(Get(d, key)) THEN [ok |-> TRUE, val |-> None]
    ELSE IF IsInt(Get(d, key)) THEN [ok |-> TRUE, val |-> Some(Get(d, key).int)]
    ELSE [ok |-> FALSE, val |-> None]

\* extensions: list[str], default [].
StrListField(d, key) ==
    IF ~Has(d, key) THEN [ok |-> TRUE, val |-> <<>>]
    ELSE IF IsList(Get(d, key))
            /\ \A i \in 1..Len(Get(d, key).seq) : IsStr(Get(d, key).seq[i])
    THEN [ok |-> TRUE,
          val |-> [i \in 1..Len(Get(d, key).seq) |-> Get(d, key).seq[i].str]]
    ELSE [ok |-> FALSE, val |-> <<>>]

\* settings: dict[str, Any], default {}.
DictField(d, key) ==
    IF ~Has(d, key) THEN [ok |-> TRUE, val |-> EmptyDict]
    ELSE IF IsMap(Get(d, key)) THEN [ok |-> TRUE, val |-> Get(d, key).map]
    ELSE [ok |-> FALSE, val |-> EmptyDict]

\* The field schema_ has alias "schema"; populate_by_name also takes "schema_".
SchemaKey(d) == IF Has(d, "schema") THEN "schema" ELSE "schema_"

(***************************************************************************)
(* models.py: DuckDbOutput                                                 *)
(***************************************************************************)
DuckDbFields == {"type", "path", "schema", "schema_", "database", "threads",
                 "extensions", "settings"}

\* The after-validator: database follows a ":memory:" path.
sync_database_with_memory_path(self) ==
    IF self.path = ":memory:" /\ self.database # "memory"
    THEN [self EXCEPT !.database = "memory"]
    ELSE self

\* DuckDbOutput(**d): field validation with defaults, extras kept, then the
\* after-validator. There is no validator on threads.
DuckDbOutput(d) ==
    LET path == StrField(d, "path", ":memory:")
        schema == StrField(d, SchemaKey(d), "main")
        database == StrField(d, "database", "main")
        threads == IntField(d, "threads", 1)
        extensions == StrListField(d, "extensions")
        settings == DictField(d, "settings")
        typeOk == Has(d, "type") /\ Get(d, "type") = StrV("duckdb")
    IN [ok |-> typeOk /\ path.ok /\ schema.ok /\ database.ok /\ threads.ok
                /\ extensions.ok /\ settings.ok,
        obj |-> sync_database_with_memory_path(
                  [type |-> "duckdb", path |-> path.val, schema_ |-> schema.val,
                   database |-> database.val, threads |-> threads.val,
                   extensions |-> extensions.val, settings |-> settings.val,
                   extra |-> ExtraOf(d, DuckDbFields)])]

(***************************************************************************)
(* models.py: DatabricksOutput                                             *)
(***************************************************************************)
DatabricksFields == {"type", "schema", "schema_", "host", "http_path", "token",
                     "auth_type", "client_id", "client_secret",
                     "azure_client_id", "azure_client_secret", "catalog",
                     "threads", "connect_retries", "connect_timeout"}

\* v.startswith(p) / v[len(p):] on a token sequence.
StartsWith(v, p) == Len(v) > 0 /\ Head(v) = p

strip_host_protocol(v) ==
    IF StartsWith(v, "https://") THEN Tail(v)
    ELSE IF StartsWith(v, "http://") THEN Tail(v)
    ELSE v

ensure_http_path_starts_with_slash(v) ==
    IF ~StartsWith(v, "/") THEN <<"/">> \o v ELSE v

\* threads >= 1, else ValueError.
validate_threads(v) == v >= 1

\* connect_retries >= 0, else ValueError.
validate_connect_retries(v) == v >= 0

\* Python truthiness of an Optional[str]: None and "" are falsy.
Truthy(o) == o # None /\ o[1] # ""

\* validate_auth_method without the completeness test of a credential pair.
validate_auth_method_NoPairCheck(self) ==
    LET has_token == self.token # None
        has_oauth == self.auth_type = Some("oauth")
        has_client_creds == self.client_id # None \/ self.client_secret # None
        has_azure_creds == self.azure_client_id # None
                             \/ self.azure_client_secret # None
    IN IF has_token
       THEN ~(has_oauth \/ has_client_creds \/ has_azure_creds)
       ELSE IF has_oauth
       THEN ~(has_client_creds /\ has_azure_creds)
       ELSE ~(has_client_creds \/ has_azure_creds)

\* The after-validator on the whole entity; TRUE when it returns self, FALSE
\* when it raises ValueError.
validate_auth_method(self) ==
    LET has_token == self.token # None
        has_oauth == self.auth_type = Some("oauth")
        has_client_creds == self.client_id # None \/ self.client_secret # None
        has_azure_creds == self.azure_client_id # None
                             \/ self.azure_client_secret # None
    IN IF has_token
       THEN ~(has_oauth \/ has_client_creds \/ has_azure_creds)
       ELSE IF has_oauth
       THEN IF has_client_creds
            THEN IF ~(Truthy(self.client_id) /\ Truthy(self.client_secret))
                 THEN FALSE
                 ELSE ~has_azure_creds
            ELSE IF has_azure_creds
            THEN Truthy(self.azure_client_id) /\ Truthy(self.azure_client_secret)
            ELSE TRUE
       ELSE ~(has_client_creds \/ has_azure_creds)

\* auth_type: Literal["oauth"] | None.
AuthTypeField(d) ==
    IF ~Has(d, "auth_type") \/ IsNull(Get(d, "auth_type"))
    THEN [ok |-> TRUE, val |-> None]
    ELSE IF Get(d, "auth_type") = StrV("oauth")
    THEN [ok |-> TRUE, val |-> Some("oauth")]
    ELSE [ok |-> FALSE, val |-> None]

\* host: str, required; the before-validator runs on a str.
HostField(d) ==
    IF Has(d, "host") /\ IsStr(Get(d, "host"))
    THEN [ok |-> TRUE, val |-> strip_host_protocol(Get(d, "host").str)]
    ELSE [ok |-> FALSE, val |-> <<>>]

\* http_path: str, required; the before-validator runs on a str.
HttpPathField(d) ==
    IF Has(d, "http_path") /\ IsStr(Get(d, "http_path"))
    THEN [ok |-> TRUE,
          val |-> ensure_http_path_starts_with_slash(Get(d, "http_path").str)]
    ELSE [ok |-> FALSE, val |-> <<>>]

DatabricksOutput(d) ==
    LET schema == ReqStrField(d, SchemaKey(d))
        host == HostField(d)
        http_path == HttpPathField(d)
        token == OptStrField(d, "token")
        auth_type == AuthTypeField(d)
        client_id == OptStrField(d, "client_id")
        client_secret == OptStrField(d, "client_secret")
        azure_client_id == OptStrField(d, "azure_client_id")
        azure_client_secret == OptStrField(d, "azure_client_secret")
        catalog == OptStrField(d, "catalog")
        threads == IntField(d, "threads", 1)
        connect_retries == IntField(d, "connect_retries", 0)
        connect_timeout == OptIntField(d, "connect_timeout")
        typeOk == Has(d, "type") /\ Get(d, "type") = StrV("databricks")
        self == [type |-> "databricks", schema_ |-> schema.val,
                 host |-> host.val, http_path |-> http_path.val,
                 token |-> token.val, auth_type |-> auth_type.val,
                 client_id |-> client_id.val,
                 client_secret |-> client_secret.val,
                 azure_client_id |-> azure_client_id.val,
                 azure_client_secret |-> azure_client_secret.val,
                 catalog |-> catalog.val, threads |-> threads.val,
                 connect_retries |-> connect_retries.val,
                 connect_timeout |-> connect_timeout.val,
                 extra |-> ExtraOf(d, DatabricksFields)]
        fieldsOk == typeOk /\ schema.ok /\ host.ok /\ http_path.ok /\ token.ok
                      /\ auth_type.ok /\ client_id.ok /\ client_secret.ok
                      /\ azure_client_id.ok /\ azure_client_secret.ok
                      /\ catalog.ok /\ threads.ok /\ connect_retries.ok
                      /\ connect_timeout.ok
                      /\ (Has(d, "threads") => validate_threads(threads.val))
                      /\ (Has(d, "connect_retries")
                            => validate_connect_retries(connect_retries.val))
    IN [ok |-> fieldsOk /\ validate_auth_method(self), obj |-> self]

(***************************************************************************)
(* models.py: OutputConfig, the union discriminated by "type"              *)
(***************************************************************************)
NoObject == [type |-> "invalid"]

\* A union that takes an output of an unknown type for a DuckDB output.
OutputConfig_Open(n) ==
    IF ~IsMap(n) \/ ~Has(n.map, "type") THEN [ok |-> FALSE, obj |-> NoObject]
    ELSE IF Get(n.map, "type") = StrV("databricks") THEN DatabricksOutput(n.map)
    ELSE DuckDbOutput(Put(n.map, "type", StrV("duckdb")))

\* Validation of one value of ProfileTarget.outputs given as plain data.
OutputConfig(n) ==
    IF ~IsMap(n) \/ ~Has(n.map, "type") THEN [ok |-> FALSE, obj |-> NoObject]
    ELSE IF Get(n.map, "type") = StrV("duckdb") THEN DuckDbOutput(n.map)
    ELSE IF Get(n.map, "type") = StrV("databricks") THEN DatabricksOutput(n.map)
    ELSE [ok |-> FALSE, obj |-> NoObject]

(***************************************************************************)
(* models.py: ProfileTarget and DbtProfiles                                *)
(*                                                                         *)
(* A DbtProfiles instance is [root, heap]: root maps a profile name to     *)
(* [target, outputs, extra], outputs maps an output name to a reference,   *)
(* and heap[r] is the output instance r refers to.                         *)
(***************************************************************************)
ProfileTargetFields == {"target", "outputs"}

\* ProfileTarget(**pd) on plain data: target: str and outputs: dict[str,
\* OutputConfig] are required, every output must validate, extras are kept.
\* outs maps each output name to its validated instance.
ProfileTargetFromData(n) ==
    IF ~IsMap(n) \/ ~Has(n.map, "target") \/ ~Has(n.map, "outputs")
         \/ ~IsStr(Get(n.map, "target")) \/ ~IsMap(Get(n.map, "outputs"))
    THEN [ok |-> FALSE, target |-> "", outs |-> EmptyDict, extra |-> EmptyDict]
    ELSE LET od == Get(n.map, "outputs").map
         IN [ok |-> \A i \in 1..Len(od) : OutputConfig(od[i].v).ok,
             target |-> Get(n.map, "target").str,
             outs |-> [i \in 1..Len(od) |->
                          Entry(od[i].k, OutputConfig(od[i].v).obj)],
             extra |-> ExtraOf(n.map, ProfileTargetFields)]

\* ProfileTarget(target=..., outputs={output_name: output_config}) with an
\* instance: the instance is kept as it is (by reference, not revalidated),
\* in a new dict.
ProfileTarget(target, outputs) ==
    [target |-> target, outputs |-> outputs, extra |-> EmptyDict]

\* DbtProfiles(root={}).
EmptyProfiles == [root |-> EmptyDict, heap |-> <<>>]

RECURSIVE CountBefore(_, _)
\* The number of outputs of the first i profiles of validated data.
CountBefore(vs, i) ==
    IF i = 0 THEN 0 ELSE CountBefore(vs, i - 1) + Len(vs[i].outs)

RECURSIVE HeapOf(_, _)
\* The instances of the first i profiles, in document order.
HeapOf(vs, i) ==
    IF i = 0 THEN <<>>
    ELSE HeapOf(vs, i - 1) \o [j \in 1..Len(vs[i].outs) |-> vs[i].outs[j].v]

\* A text that yaml.safe_load rejects.
Malformed == [malformed |-> TRUE]

\* yaml.safe_load: a well-formed text denotes one plain value.
safe_load(content) == content.yaml

\* yaml.dump(data, default_flow_style=False, sort_keys=False): the block
\* text of a plain value, keys in dict order.
dump(data) == [yaml |-> data]

\* DbtProfiles.from_yaml: [ok, profiles]; ok is FALSE when ValueError is
\* raised (invalid YAML, not a mapping, or schema validation).
from_yaml(content) ==
    IF content = Malformed THEN [ok |-> FALSE, profiles |-> EmptyProfiles]
    ELSE LET data == safe_load(content)
         IN IF ~IsMap(data) THEN [ok |-> FALSE, profiles |-> EmptyProfiles]
            ELSE LET vs == [i \in 1..Len(data.map) |->
                               ProfileTargetFromData(data.map[i].v)]
                 IN IF \E i \in 1..Len(vs) : ~vs[i].ok
                    THEN [ok |-> FALSE, profiles |-> EmptyProfiles]
                    ELSE [ok |-> TRUE,
                          profiles |->
                            [root |-> [i \in 1..Len(vs) |->
                                 Entry(data.map[i].k,
                                   [target |-> vs[i].target,
                                    outputs |-> [j \in 1..Len(vs[i].outs) |->
                                       Entry(vs[i].outs[j].k,
                                             CountBefore(vs, i - 1) + j)],
                                    extra |-> vs[i].extra])],
                             heap |-> HeapOf(vs, Len(vs))]]

\* exclude_none=True on the fields of a model: None values are left out.
OptEntry(key, o) == IF o = None THEN <<>> ELSE <<Entry(key, StrV(o[1]))>>

OptIntEntry(key, o) == IF o = None THEN <<>> ELSE <<Entry(key, IntV(o[1]))>>

ExcludeNone(d) == SelectSeq(d, LAMBDA e : ~IsNull(e.v))

\* model_dump(exclude_none=True, by_alias=True) of an output instance:
\* declared fields in declaration order, schema_ under its alias, then extras.
OutputDump(o) ==
    IF o.type = "duckdb"
    THEN <<Entry("type", StrV("duckdb")), Entry("path", StrV(o.path)),
           Entry("schema", StrV(o.schema_)), Entry("database", StrV(o.database)),
           Entry("threads", IntV(o.threads)),
           Entry("extensions", ListV([i \in 1..Len(o.extensions) |->
                                         StrV(o.extensions[i])])),
           Entry("settings", MapV(o.settings))>>
         \o ExcludeNone(o.extra)
    ELSE <<Entry("type", StrV("databricks")), Entry("schema", StrV(o.schema_)),
           Entry("host", StrV(o.host)), Entry("http_path", StrV(o.http_path))>>
         \o OptEntry("token", o.token) \o OptEntry("auth_type", o.auth_type)
         \o OptEntry("client_id", o.client_id)
         \o OptEntry("client_secret", o.client_secret)
         \o OptEntry("azure_client_id", o.azure_client_id)
         \o OptEntry("azure_client_secret", o.azure_client_secret)
         \o OptEntry("catalog", o.catalog)
         \o <<Entry("threads", IntV(o.threads)),
              Entry("connect_retries", IntV(o.connect_retries))>>
         \o OptIntEntry("connect_timeout", o.connect_timeout)
         \o ExcludeNone(o.extra)

\* model_dump of a ProfileTarget.
ProfileDump(self, p) ==
    <<Entry("target", StrV(p.target)),
      Entry("outputs", MapV([j \in 1..Len(p.outputs) |->
                  Entry(p.outputs[j].k, MapV(OutputDump(self.heap[p.outputs[j].v])))]))>>
    \o ExcludeNone(p.extra)

\* DbtProfiles.to_yaml.
to_yaml(self) ==
    dump(MapV([i \in 1..Len(self.root) |->
                  Entry(self.root[i].k, MapV(ProfileDump(self, self.root[i].v)))]))

(***************************************************************************)
(* Python object graph: instances nothing refers to are freed; the heap is *)
(* kept in document order so that equal graphs are equal values.           *)
(***************************************************************************)
RECURSIVE RefsOf(_, _)
\* The references held by the first i profiles, in document order.
RefsOf(root, i) ==
    IF i = 0 THEN <<>>
    ELSE RefsOf(root, i - 1)
           \o [j \in 1..Len(root[i].v.outputs) |-> root[i].v.outputs[j].v]

RECURSIVE Dedup(_, _)
\* The first n elements of s without repetitions, first occurrences kept.
Dedup(s, n) ==
    IF n = 0 THEN <<>>
    ELSE LET d == Dedup(s, n - 1)
         IN IF \E k \in 1..Len(d) : d[k] = s[n] THEN d ELSE Append(d, s[n])

Collect(self) ==
    LET refs == RefsOf(self.root, Len(self.root))
        live == Dedup(refs, Len(refs))
        new(r) == CHOOSE k \in 1..Len(live) : live[k] = r
    IN [root |-> [i \in 1..Len(self.root) |->
                    Entry(self.root[i].k,
                      [self.root[i].v EXCEPT !.outputs =
                         [j \in 1..Len(@) |-> Entry(@[j].k, new(@[j].v))]])],
        heap |-> [k \in 1..Len(live) |-> self.heap[live[k]]]]

\* The caller constructs a new instance: it is the last of the heap.
Alloc(self, obj) == [self EXCEPT !.heap = Append(@, obj)]

(***************************************************************************)
(* editor.py: the CRUD operations. Each returns [exc, profiles]: exc is    *)
(* the class of the exception raised, or NoExc on a normal return, and     *)
(* profiles is the (mutated in place) document after the call.             *)
(***************************************************************************)
NoExc == ""

Return(profiles) == [exc |-> NoExc, profiles |-> profiles]

Raise(exc, profiles) == [exc |-> exc, profiles |-> profiles]

\* get_profile_names that lists the names last first.
get_profile_names_Reversed(profiles) ==
    [i \in 1..Len(profiles.root) |->
        profiles.root[Len(profiles.root) + 1 - i].k]

get_profile_names(profiles) == Keys(profiles.root)

\* add_profile without the existence test: an existing profile is replaced.
add_profile_Overwrite(profiles, name, target, output_name, output_config) ==
    Return([profiles EXCEPT !.root =
        Put(@, name, ProfileTarget(target,
                                   <<Entry(output_name, output_config)>>))])

\* add_profile that takes the output name for the target.
add_profile_TargetFromOutput(profiles, name, target, output_name, output_config) ==
    IF Has(profiles.root, name)
    THEN Raise("ProfileAlreadyExistsError", profiles)
    ELSE Return([profiles EXCEPT !.root =
            Put(@, name, ProfileTarget(output_name,
                                       <<Entry(output_name, output_config)>>))])

add_profile(profiles, name, target, output_name, output_config) ==
    IF Has(profiles.root, name)
    THEN Raise("ProfileAlreadyExistsError", profiles)
    ELSE Return([profiles EXCEPT !.root =
            Put(@, name, ProfileTarget(target,
                                       <<Entry(output_name, output_config)>>))])

\* update_profile_target that refuses a target that names no output.
update_profile_target_Checked(profiles, name, target) ==
    IF ~Has(profiles.root, name)
    THEN Raise("ProfileNotFoundError", profiles)
    ELSE IF ~Has(Get(profiles.root, name).outputs, target)
    THEN Raise("OutputNotFoundError", profiles)
    ELSE Return([profiles EXCEPT !.root =
            Put(@, name, [Get(@, name) EXCEPT !.target = target])])

update_profile_target(profiles, name, target) ==
    IF ~Has(profiles.root, name)
    THEN Raise("ProfileNotFoundError", profiles)
    ELSE Return([profiles EXCEPT !.root =
            Put(@, name, [Get(@, name) EXCEPT !.target = target])])

\* delete_profile that empties the mapping instead of deleting one key.
delete_profile_Clear(profiles, name) ==
    IF ~Has(profiles.root, name)
    THEN Raise("ProfileNotFoundError", profiles)
    ELSE Return([profiles EXCEPT !.root = EmptyDict])

delete_profile(profiles, name) ==
    IF ~Has(profiles.root, name)
    THEN Raise("ProfileNotFoundError", profiles)
    ELSE Return([profiles EXCEPT !.root = Del(@, name)])

\* add_output that stores the output before it tests for the name.
add_output_WriteThenRaise(profiles, profile_name, output_name, output_config) ==
    IF ~Has(profiles.root, profile_name)
    THEN Raise("ProfileNotFoundError", profiles)
    ELSE LET stored == [profiles EXCEPT !.root =
                 Put(@, profile_name, [Get(@, profile_name) EXCEPT !.outputs =
                                          Put(@, output_name, output_config)])]
         IN IF Has(Get(profiles.root, profile_name).outputs, output_name)
            THEN Raise("OutputAlreadyExistsError", stored)
            ELSE Return(stored)

\* add_output without the test for the name: an existing output is replaced.
add_output_Overwrite(profiles, profile_name, output_name, output_config) ==
    IF ~Has(profiles.root, profile_name)
    THEN Raise("ProfileNotFoundError", profiles)
    ELSE Return([profiles EXCEPT !.root =
            Put(@, profile_name, [Get(@, profile_name) EXCEPT !.outputs =
                                     Put(@, output_name, output_config)])])

add_output(profiles, profile_name, output_name, output_config) ==
    IF ~Has(profiles.root, profile_name)
    THEN Raise("ProfileNotFoundError", profiles)
    ELSE IF Has(Get(profiles.root, profile_name).outputs, output_name)
    THEN Raise("OutputAlreadyExistsError", profiles)
    ELSE Return([profiles EXCEPT !.root =
            Put(@, profile_name, [Get(@, profile_name) EXCEPT !.outputs =
                                     Put(@, output_name, output_config)])])

\* output.path = path: no validate_assignment, so no validator runs. On a
\* DuckDbOutput path is a field; on a DatabricksOutput it is no field and
\* extra="allow" stores it among the extras.
SetPath(output, path) ==
    IF output.type = "duckdb"
    THEN [output EXCEPT !.path = path]
    ELSE [output EXCEPT !.extra = Put(@, "path", StrV(path))]

\* output.threads = threads: a field of both variants, assigned unvalidated.
SetThreads(output, threads) == [output EXCEPT !.threads = threads]

\* update_output that takes one thread for a thread count not given (the
\* "threads or 1" of the add handlers).
update_output_DefaultThreads(profiles, profile_name, output_name, path, threads) ==
    IF ~Has(profiles.root, profile_name)
    THEN Raise("ProfileNotFoundError", profiles)
    ELSE IF ~Has(Get(profiles.root, profile_name).outputs, output_name)
    THEN Raise("OutputNotFoundError", profiles)
    ELSE LET ref == Get(Get(profiles.root, profile_name).outputs, output_name)
             o1 == IF path # None
                   THEN SetPath(profiles.heap[ref], path[1])
                   ELSE profiles.heap[ref]
             o2 == [o1 EXCEPT !.threads =
                       IF threads # None THEN threads[1] ELSE 1]
         IN Return([profiles EXCEPT !.heap[ref] = o2])

update_output(profiles, profile_name, output_name, path, threads) ==
    IF ~Has(profiles.root, profile_name)
    THEN Raise("ProfileNotFoundError", profiles)
    ELSE IF ~Has(Get(profiles.root, profile_name).outputs, output_name)
    THEN Raise("OutputNotFoundError", profiles)
    ELSE LET ref == Get(Get(profiles.root, profile_name).outputs, output_name)
             o1 == IF path # None
                   THEN SetPath(profiles.heap[ref], path[1])
                   ELSE profiles.heap[ref]
             o2 == IF threads # None THEN SetThreads(o1, threads[1]) ELSE o1
         IN Return([profiles EXCEPT !.heap[ref] = o2])

\* delete_output without the last-output test.
delete_output_NoLastGuard(profiles, profile_name, output_name) ==
    IF ~Has(profiles.root, profile_name)
    THEN Raise("ProfileNotFoundError", profiles)
    ELSE IF ~Has(Get(profiles.root, profile_name).outputs, output_name)
    THEN Raise("OutputNotFoundError", profiles)
    ELSE Return([profiles EXCEPT !.root =
            Put(@, profile_name, [Get(@, profile_name) EXCEPT !.outputs =
                                     Del(@, output_name)])])

\* delete_output that tests for the last output before it looks for the name.
delete_output_LastFirst(profiles, profile_name, output_name) ==
    IF ~Has(profiles.root, profile_name)
    THEN Raise("ProfileNotFoundError", profiles)
    ELSE IF Len(Get(profiles.root, profile_name).outputs) = 1
    THEN Raise("ValueError", profiles)
    ELSE IF ~Has(Get(profiles.root, profile_name).outputs, output_name)
    THEN Raise("OutputNotFoundError", profiles)
    ELSE Return([profiles EXCEPT !.root =
            Put(@, profile_name, [Get(@, profile_name) EXCEPT !.outputs =
                                     Del(@, output_name)])])

delete_output(profiles, profile_name, output_name) ==
    IF ~Has(profiles.root, profile_name)
    THEN Raise("ProfileNotFoundError", profiles)
    ELSE IF ~Has(Get(profiles.root, profile_name).outputs, output_name)
    THEN Raise("OutputNotFoundError", profiles)
    ELSE IF Len(Get(profiles.root, profile_name).outputs) = 1
    THEN Raise("ValueError", profiles)
    ELSE Return([profiles EXCEPT !.root =
            Put(@, profile_name, [Get(@, profile_name) EXCEPT !.outputs =
                                     Del(@, output_name)])])

get_output_names(profiles, profile_name) ==
    IF ~Has(profiles.root, profile_name)
    THEN [exc |-> "ProfileNotFoundError", val |-> <<>>]
    ELSE [exc |-> NoExc, val |-> Keys(Get(profiles.root, profile_name).outputs)]

get_output(profiles, profile_name, output_name) ==
    IF ~Has(profiles.root, profile_name)
    THEN [exc |-> "ProfileNotFoundError", val |-> 0]
    ELSE IF ~Has(Get(profiles.root, profile_name).outputs, output_name)
    THEN [exc |-> "OutputNotFoundError", val |-> 0]
    ELSE [exc |-> NoExc,
          val |-> Get(Get(profiles.root, profile_name).outputs, output_name)]

(***************************************************************************)
(* The file system under the persistence functions (pathlib): dirs is the  *)
(* set of directories that exist, files[p] the text of the file p or None. *)
(***************************************************************************)
\* DEFAULT_PROFILE_PATH = Path.home() / ".dbt" / "profiles.yml".
DEFAULT_PROFILE_PATH == <<"home", ".dbt", "profiles.yml">>

\* An explicit path whose parent directory need not exist.
NestedPath == <<"tmp", "deep", "nested", "profiles.yml">>

Paths == {DEFAULT_PROFILE_PATH, NestedPath}

\* BRIX_DBT_PROFILE_PATH is not set: config.profile_path is None.
get_default_profile_path == DEFAULT_PROFILE_PATH

\* path.parent.
Parent(path) == SubSeq(path, 1, Len(path) - 1)

\* path.exists() of a file path.
exists(fs, path) == fs.files[path] # None

\* path.mkdir(parents=True, exist_ok=True): path and all its ancestors.
mkdir(fs, path) ==
    [fs EXCEPT !.dirs = @ \cup {SubSeq(path, 1, n) : n \in 1..Len(path)}]

\* path.write_text(content): the file is created or replaced.
write_text(fs, path, content) == [fs EXCEPT !.files[path] = Some(content)]

\* DbtProfiles.from_file: path.read_text() raises FileNotFoundError when
\* there is no file, from_yaml raises ValueError on what it does not accept.
from_file(fs, path) ==
    IF ~exists(fs, path)
    THEN Raise("FileNotFoundError", EmptyProfiles)
    ELSE IF ~from_yaml(fs.files[path][1]).ok
    THEN Raise("ValueError", EmptyProfiles)
    ELSE Return(from_yaml(fs.files[path][1]).profiles)

\* load_profiles that answers a missing file with the empty document.
load_profiles_EmptyOnMissing(fs, path) ==
    LET target_path == IF path # None THEN path[1]
                       ELSE get_default_profile_path
    IN IF ~exists(fs, target_path) THEN Return(EmptyProfiles)
       ELSE from_file(fs, target_path)

\* load_profiles(path): [exc, profiles]; profiles is what is returned when
\* exc is NoExc.
load_profiles(fs, path) ==
    LET target_path == IF path # None THEN path[1]
                       ELSE get_default_profile_path
    IN from_file(fs, target_path)

\* save_profiles that writes the file before it validates the text.
save_profiles_WriteFirst(fs, profiles, path) ==
    LET target_path == IF path # None THEN path[1]
                       ELSE get_default_profile_path
        yaml_content == to_yaml(profiles)
        written == write_text(mkdir(fs, Parent(target_path)), target_path,
                              yaml_content)
    IN IF ~from_yaml(yaml_content).ok
       THEN [exc |-> "ValueError", disk |-> written]
       ELSE [exc |-> NoExc, disk |-> written]

\* save_profiles(profiles, path): [exc, disk]; disk is the file system
\* after the call.
save_profiles(fs, profiles, path) ==
    LET target_path == IF path # None THEN path[1]
                       ELSE get_default_profile_path
        yaml_content == to_yaml(profiles)
    IN IF ~from_yaml(yaml_content).ok
       THEN [exc |-> "ValueError", disk |-> fs]
       ELSE [exc |-> NoExc,
             disk |-> write_text(mkdir(fs, Parent(target_path)), target_path,
                                 yaml_content)]

(***************************************************************************)
(* The editing session: a caller holds one document and applies Editor     *)
(* operations to it. prev is the document before the last call and last    *)
(* records the call: its arguments and the exception it raised.            *)
(***************************************************************************)
\* The number of Editor calls of a session.
MaxOps == 2

ProfileNames == {"a", "b"}

OutputNames == {"dev", "prod"}

TargetNames == {"dev", "prod"}

PathArgs == {None, Some(":memory:"), Some("new.duckdb")}

ThreadsArgs == {None, Some(0), Some(8)}

\* Keyword arguments of the DuckDbOutput(type="duckdb", path=..., threads=...)
\* the callers construct for add_profile and add_output.
ConfigArgs ==
    { <<Entry("type", StrV("duckdb")), Entry("path", StrV(":memory:")),
        Entry("threads", IntV(1))>>,
      <<Entry("type", StrV("duckdb")), Entry("path", StrV("dev.duckdb")),
        Entry("threads", IntV(4))>> }

\* The profiles.yml texts a session starts from.
SampleText ==
    dump(MapV(<<
      Entry("a", MapV(<<
        Entry("target", StrV("dev")),
        Entry("outputs", MapV(<<
          Entry("dev", MapV(<<
            Entry("type", StrV("duckdb")),
            Entry("path", StrV("test.duckdb")),
            Entry("schema", StrV("custom_schema")),
            Entry("database", StrV("mydb")),
            Entry("extensions", ListV(<<StrV("httpfs"), StrV("parquet")>>)),
            Entry("settings", MapV(<<Entry("memory_limit", StrV("2GB"))>>)),
            Entry("custom_key", StrV("kept"))>>)),
          Entry("prod", MapV(<<
            Entry("type", StrV("databricks")),
            Entry("schema", StrV("my_schema")),
            Entry("host", StrV(<<"https://", "x.databricks.com">>)),
            Entry("http_path", StrV(<<"sql/abc">>)),
            Entry("token", StrV("dapi123"))>>))>>))>>))>>))

SingleText ==
    dump(MapV(<<
      Entry("b", MapV(<<
        Entry("target", StrV("staging")),
        Entry("outputs", MapV(<<
          Entry("dev", MapV(<<
            Entry("type", StrV("duckdb")),
            Entry("threads", IntV(2))>>))>>))>>))>>))

InitTexts == {SampleText, SingleText, dump(MapV(EmptyDict))}

\* The file system with the home and the temporary directory and no
\* profiles file.
FreshDisk == [dirs |-> {<<"home">>, <<"tmp">>}, files |-> [p \in Paths |-> None]]

\* The arguments of no call.
NoCall ==
    [op |-> "load", name |-> "", target |-> "", output_name |-> "",
     config |-> NoObject, ref |-> 0, path |-> None, threads |-> None,
     exc |-> NoExc]

Init ==
    /\ \E t \in InitTexts :
          /\ from_yaml(t).ok
          /\ doc = from_yaml(t).profiles
    /\ prev = doc
    /\ last = NoCall
    /\ steps = 0
    /\ disk = FreshDisk

\* The output_config argument: a newly constructed DuckDbOutput, or an
\* instance the caller got from the document (get_output).
NewConfig(kw) == [new |-> TRUE, kw |-> kw, ref |-> 0]

HeldConfig(r) == [new |-> FALSE, kw |-> EmptyDict, ref |-> r]

ConfigsOf(self) ==
    {NewConfig(kw) : kw \in {k \in ConfigArgs : DuckDbOutput(k).ok}}
      \cup {HeldConfig(r) : r \in 1..Len(self.heap)}

WithConfig(self, cfg) ==
    IF cfg.new THEN Alloc(self, DuckDbOutput(cfg.kw).obj) ELSE self

RefOfConfig(self, cfg) == IF cfg.new THEN Len(self.heap) + 1 ELSE cfg.ref

\* An Editor call that is followed by a save of its result to the default
\* path, as in the handlers of the CLI.
Called_Autosave(call, res) ==
    /\ steps < MaxOps
    /\ doc' = Collect(res.profiles)
    /\ prev' = doc
    /\ last' = [call EXCEPT !.exc = res.exc]
    /\ steps' = steps + 1
    /\ disk' = IF res.exc = NoExc
               THEN save_profiles(disk, Collect(res.profiles), None).disk
               ELSE disk

\* One Editor call that ended with result res. The Editor functions do no
\* input or output.
Called(call, res) ==
    /\ steps < MaxOps
    /\ doc' = Collect(res.profiles)
    /\ prev' = doc
    /\ last' = [call EXCEPT !.exc = res.exc]
    /\ steps' = steps + 1
    /\ disk' = disk

AddProfile ==
    \E name \in ProfileNames, target \in TargetNames,
       output_name \in OutputNames, cfg \in ConfigsOf(doc) :
        LET self == WithConfig(doc, cfg)
            ref == RefOfConfig(doc, cfg)
        IN Called([NoCall EXCEPT !.op = "add_profile", !.name = name,
                      !.target = target, !.output_name = output_name,
                      !.config = self.heap[ref], !.ref = ref],
                  add_profile(self, name, target, output_name, ref))

UpdateProfileTarget ==
    \E name \in ProfileNames, target \in TargetNames :
        Called([NoCall EXCEPT !.op = "update_profile_target", !.name = name,
                   !.target = target],
               update_profile_target(doc, name, target))

DeleteProfile ==
    \E name \in ProfileNames :
        Called([NoCall EXCEPT !.op = "delete_profile", !.name = name],
               delete_profile(doc, name))

AddOutput ==
    \E name \in ProfileNames, output_name \in OutputNames,
       cfg \in ConfigsOf(doc) :
        LET self == WithConfig(doc, cfg)
            ref == RefOfConfig(doc, cfg)
        IN Called([NoCall EXCEPT !.op = "add_output", !.name = name,
                      !.output_name = output_name,
                      !.config = self.heap[ref], !.ref = ref],
                  add_output(self, name, output_name, ref))

UpdateOutput ==
    \E name \in ProfileNames, output_name \in OutputNames,
       path \in PathArgs, threads \in ThreadsArgs :
        Called([NoCall EXCEPT !.op = "update_output", !.name = name,
                   !.output_name = output_name, !.path = path,
                   !.threads = threads],
               update_output(doc, name, output_name, path, threads))

DeleteOutput ==
    \E name \in ProfileNames, output_name \in OutputNames :
        Called([NoCall EXCEPT !.op = "delete_output", !.name = name,
                   !.output_name = output_name],
               delete_output(doc, name, output_name))

Next ==
    \/ AddProfile
    \/ UpdateProfileTarget
    \/ DeleteProfile
    \/ AddOutput
    \/ UpdateOutput
    \/ DeleteOutput

Spec == Init /\ [][Next]_vars

(***************************************************************************)
(* Views used by the properties                                            *)
(***************************************************************************)
\* The document by value: every reference replaced by the instance.
Value(self) ==
    [i \in 1..Len(self.root) |->
        Entry(self.root[i].k,
              [target |-> self.root[i].v.target,
               outputs |-> [j \in 1..Len(self.root[i].v.outputs) |->
                               Entry(self.root[i].v.outputs[j].k,
                                     self.heap[self.root[i].v.outputs[j].v])],
               extra |-> self.root[i].v.extra])]

\* The profile called name, by value.
ProfileOf(self, name) == Get(Value(self), name)

HasProfile(self, name) == Has(self.root, name)

HasOutput(self, name, output_name) ==
    HasProfile(self, name) /\ Has(Get(self.root, name).outputs, output_name)

\* The output instance (name, output_name).
OutputOf(self, name, output_name) ==
    Get(ProfileOf(self, name).outputs, output_name)

\* Every profile other than name is in both documents with the same value,
\* and they list the same names in the same order.
OthersUnchanged(before, after, name) ==
    Del(Value(before), name) = Del(Value(after), name)

(***************************************************************************)
(* C1. Non-empty outputs: after every Editor call, successful or not,      *)
(* every profile of the document has at least one output.                  *)
(***************************************************************************)
NonEmptyOutputs ==
    \A i \in 1..Len(doc.root) : Len(doc.root[i].v.outputs) >= 1

\* delete_output was refused on the only output of a profile.
NonEmptyOutputsWitness ==
    /\ last.op = "delete_output"
    /\ HasOutput(prev, last.name, last.output_name)
    /\ Len(Get(prev.root, last.name).outputs) = 1
    /\ last.exc = "ValueError"
    /\ Len(Get(doc.root, last.name).outputs) = 1

(***************************************************************************)
(* C2. Atomicity: a call that raises leaves the document as it was.        *)
(***************************************************************************)
Atomicity == last.exc # NoExc => doc = prev

\* update_output, given a path and a thread count, has raised on a document
\* that holds two output instances.
AtomicityWitness ==
    /\ last.op = "update_output"
    /\ last.exc = "OutputNotFoundError"
    /\ last.path # None
    /\ last.threads # None
    /\ Len(doc.heap) >= 2

(***************************************************************************)
(* C3. Round-trip law: from_yaml(to_yaml(d)) succeeds and equals d field   *)
(* for field, for every document d the Editor operations produce.          *)
(***************************************************************************)
RoundTripLaw ==
    /\ from_yaml(to_yaml(doc)).ok
    /\ Value(from_yaml(to_yaml(doc)).profiles) = Value(doc)

(***************************************************************************)
(* C5. delete_output: ProfileNotFoundError when the profile is absent,     *)
(* else OutputNotFoundError when the output is absent (also from a profile *)
(* of one output), else the last-output error (ValueError) when it is the  *)
(* only output, else the output is removed and the others stay in place.   *)
(***************************************************************************)
DeleteOutputOutcomes ==
    last.op = "delete_output" =>
        IF ~HasProfile(prev, last.name)
        THEN last.exc = "ProfileNotFoundError"
        ELSE IF ~HasOutput(prev, last.name, last.output_name)
        THEN last.exc = "OutputNotFoundError"
        ELSE IF Len(Get(prev.root, last.name).outputs) = 1
        THEN last.exc = "ValueError"
        ELSE /\ last.exc = NoExc
             /\ ProfileOf(doc, last.name) =
                  [ProfileOf(prev, last.name) EXCEPT !.outputs =
                      Del(@, last.output_name)]
             /\ ~HasOutput(doc, last.name, last.output_name)

\* An output was deleted from a profile that had two.
DeleteOutputWitness ==
    /\ last.op = "delete_output"
    /\ last.exc = NoExc
    /\ Len(Get(prev.root, last.name).outputs) = 2
    /\ Len(Get(doc.root, last.name).outputs) = 1

(***************************************************************************)
(* C6. add_profile with the name of an existing profile raises             *)
(* ProfileAlreadyExistsError whatever target, output name and config it is *)
(* given, and the document serializes to the same text as before the call. *)
(***************************************************************************)
AddProfileTwice ==
    (last.op = "add_profile" /\ HasProfile(prev, last.name)) =>
        /\ last.exc = "ProfileAlreadyExistsError"
        /\ to_yaml(doc) = to_yaml(prev)
        /\ ProfileOf(doc, last.name) = ProfileOf(prev, last.name)

\* The second of two add_profile calls for "b", the first of which added it
\* with the 4-thread config under another target than the second names.
AddProfileTwiceWitness ==
    /\ steps = 2
    /\ last.op = "add_profile"
    /\ last.name = "b"
    /\ last.exc = "ProfileAlreadyExistsError"
    /\ HasProfile(doc, "a")
    /\ Len(ProfileOf(doc, "b").outputs) = 1
    /\ ProfileOf(doc, "b").outputs[1].v.threads = 4
    /\ ProfileOf(doc, "b").target # last.target
    /\ ProfileOf(doc, "b").outputs[1].k # last.output_name

(***************************************************************************)
(* C7. add_profile with a new name returns normally; the profile names are *)
(* the old ones followed by the new one; the new profile has the given     *)
(* target and exactly one output, of the given name and config; every      *)
(* profile that existed is unchanged.                                      *)
(***************************************************************************)
AddProfileEffect ==
    (last.op = "add_profile" /\ ~HasProfile(prev, last.name)) =>
        /\ last.exc = NoExc
        /\ get_profile_names(doc) = Append(get_profile_names(prev), last.name)
        /\ ProfileOf(doc, last.name) =
             [target |-> last.target,
              outputs |-> <<Entry(last.output_name, last.config)>>,
              extra |-> EmptyDict]
        /\ OthersUnchanged(prev, doc, last.name)
        /\ Len(Value(doc)) = Len(Value(prev)) + 1

\* A profile was added next to an existing one, with a target that is not
\* the name of its output.
AddProfileEffectWitness ==
    /\ last.op = "add_profile"
    /\ last.exc = NoExc
    /\ Len(prev.root) = 1
    /\ Len(doc.root) = 2
    /\ last.target # last.output_name

(***************************************************************************)
(* C8. add_output raises ProfileNotFoundError for an absent profile and    *)
(* OutputAlreadyExistsError for an output name the profile has, leaving    *)
(* that output as it was; otherwise the profile's output names are the old *)
(* ones followed by the new one. Output names of a profile stay unique.    *)
(***************************************************************************)
UniqueOutputNames ==
    \A i \in 1..Len(doc.root) :
        Cardinality(KeySet(doc.root[i].v.outputs)) = Len(doc.root[i].v.outputs)

AddOutputNeverOverwrites ==
    /\ UniqueOutputNames
    /\ last.op = "add_output" =>
         IF ~HasProfile(prev, last.name)
         THEN last.exc = "ProfileNotFoundError" /\ doc = prev
         ELSE IF HasOutput(prev, last.name, last.output_name)
         THEN /\ last.exc = "OutputAlreadyExistsError"
              /\ OutputOf(doc, last.name, last.output_name)
                   = OutputOf(prev, last.name, last.output_name)
              /\ doc = prev
         ELSE /\ last.exc = NoExc
              /\ get_output_names(doc, last.name).val
                   = Append(get_output_names(prev, last.name).val,
                            last.output_name)
              /\ OutputOf(doc, last.name, last.output_name) = last.config
              /\ ProfileOf(doc, last.name) =
                   [ProfileOf(prev, last.name) EXCEPT !.outputs =
                       Append(@, Entry(last.output_name, last.config))]

\* add_output was refused for an output name the profile has, with a config
\* that differs from the existing output.
AddOutputWitness ==
    /\ last.op = "add_output"
    /\ last.exc = "OutputAlreadyExistsError"
    /\ last.config # OutputOf(doc, last.name, last.output_name)

(***************************************************************************)
(* C9. update_output is a partial update: the path of the output becomes   *)
(* the given path if one is given and the thread count the given count if  *)
(* one is given; what is not given, and every other field of the output,   *)
(* stays as it was; a call that gives neither changes nothing.             *)
(***************************************************************************)
\* The attribute path of an instance: a field of DuckDbOutput, an extra of
\* DatabricksOutput (None when it has none).
PathAttr(o) ==
    IF o.type = "duckdb" THEN Some(o.path)
    ELSE IF Has(o.extra, "path") THEN Some(Get(o.extra, "path").str)
    ELSE None

\* The instance without its path and thread count.
Rest(o) ==
    IF o.type = "duckdb" THEN [o EXCEPT !.path = "", !.threads = 0]
    ELSE [o EXCEPT !.threads = 0, !.extra = Del(@, "path")]

PartialUpdate ==
    (last.op = "update_output" /\ last.exc = NoExc) =>
        LET old == OutputOf(prev, last.name, last.output_name)
            new == OutputOf(doc, last.name, last.output_name)
        IN /\ PathAttr(new) = IF last.path # None THEN last.path
                              ELSE PathAttr(old)
           /\ new.threads = IF last.threads # None THEN last.threads[1]
                            ELSE old.threads
           /\ Rest(new) = Rest(old)
           /\ (last.path = None /\ last.threads = None) => doc = prev

\* Only a path was given, it changed the path of a DuckDB output whose
\* thread count is not the default one and whose database is "main".
PartialUpdateWitness ==
    /\ last.op = "update_output"
    /\ last.exc = NoExc
    /\ last.path # None
    /\ last.threads = None
    /\ OutputOf(doc, last.name, last.output_name).type = "duckdb"
    /\ OutputOf(doc, last.name, last.output_name).path
         # OutputOf(prev, last.name, last.output_name).path
    /\ OutputOf(doc, last.name, last.output_name).threads > 1
    /\ OutputOf(doc, last.name, last.output_name).database = "main"

(***************************************************************************)
(* C10. target is advisory: update_profile_target on an existing profile   *)
(* returns normally for every target, naming an output or not, and changes *)
(* only that profile's target; it raises ProfileNotFoundError only for an  *)
(* absent profile. No other operation changes the target of a profile it   *)
(* keeps, and every exception has a cause that is not the target: a        *)
(* profile or an output that is absent or present, or the last output.     *)
(***************************************************************************)
TargetAdvisory ==
    /\ last.op = "update_profile_target" =>
         IF HasProfile(prev, last.name)
         THEN /\ last.exc = NoExc
              /\ ProfileOf(doc, last.name) =
                   [ProfileOf(prev, last.name) EXCEPT !.target = last.target]
              /\ OthersUnchanged(prev, doc, last.name)
              /\ get_profile_names(doc) = get_profile_names(prev)
         ELSE last.exc = "ProfileNotFoundError" /\ doc = prev
    /\ last.op # "update_profile_target" =>
         \A name \in KeySet(prev.root) \cap KeySet(doc.root) :
             Get(doc.root, name).target = Get(prev.root, name).target
    /\ last.exc # NoExc =>
         \/ last.exc = "ProfileNotFoundError" /\ ~HasProfile(prev, last.name)
         \/ last.exc = "ProfileAlreadyExistsError"
              /\ HasProfile(prev, last.name)
         \/ last.exc = "OutputNotFoundError"
              /\ ~HasOutput(prev, last.name, last.output_name)
         \/ last.exc = "OutputAlreadyExistsError"
              /\ HasOutput(prev, last.name, last.output_name)
         \/ last.exc = "ValueError" /\ last.op = "delete_output"
              /\ Len(Get(prev.root, last.name).outputs) = 1
    /\ (/\ last.op = "delete_output"
        /\ HasOutput(prev, last.name, last.output_name)
        /\ Len(Get(prev.root, last.name).outputs) > 1) => last.exc = NoExc

\* The target was set to a name that is no output of the profile.
TargetAdvisoryWitness ==
    /\ last.op = "update_profile_target"
    /\ last.exc = NoExc
    /\ ~HasOutput(doc, last.name, last.target)
    /\ ProfileOf(doc, last.name).target = last.target
    /\ ProfileOf(prev, last.name).target # last.target

\* The output the target names was deleted, and the target still names it.
DanglingTarget ==
    /\ last.op = "delete_output"
    /\ last.exc = NoExc
    /\ ProfileOf(doc, last.name).target = last.output_name

(***************************************************************************)
(* Construction of Databricks outputs over the authentication fields       *)
(***************************************************************************)
\* A value of token, client_id, ...: not given, given empty, given.
CredentialArgs == {None, Some(""), Some("secret")}

AuthTypeArgs == {None, Some("oauth")}

\* The keyword arguments of DatabricksOutput(...): the required connection
\* fields and the authentication fields that are given.
AuthKwargs(token, auth_type, client_id, client_secret, azure_client_id, azure_client_secret) ==
    <<Entry("type", StrV("databricks")), Entry("schema", StrV("my_schema")),
      Entry("host", StrV(<<"myorg.databricks.com">>)),
      Entry("http_path", StrV(<<"/", "sql/1.0/warehouses/abc123">>))>>
    \o OptEntry("token", token) \o OptEntry("auth_type", auth_type)
    \o OptEntry("client_id", client_id)
    \o OptEntry("client_secret", client_secret)
    \o OptEntry("azure_client_id", azure_client_id)
    \o OptEntry("azure_client_secret", azure_client_secret)

\* The number of outputs a construction session constructs.
MaxConstructs == 1

InitAuth ==
    /\ doc = EmptyProfiles
    /\ prev = doc
    /\ last = NoCall
    /\ steps = 0
    /\ disk = FreshDisk

\* DatabricksOutput(**kw): the instance, or pydantic's ValidationError.
Construct ==
    \E token \in CredentialArgs, auth_type \in AuthTypeArgs,
       client_id \in CredentialArgs, client_secret \in CredentialArgs,
       azure_client_id \in CredentialArgs,
       azure_client_secret \in CredentialArgs :
        LET kw == AuthKwargs(token, auth_type, client_id, client_secret,
                             azure_client_id, azure_client_secret)
            res == DatabricksOutput(kw)
        IN /\ steps < MaxConstructs
           /\ steps' = steps + 1
           /\ last' = [op |-> "DatabricksOutput", kw |-> kw,
                       config |-> IF res.ok THEN res.obj ELSE NoObject,
                       exc |-> IF res.ok THEN NoExc ELSE "ValidationError"]
           /\ UNCHANGED <<doc, prev, disk>>

NextAuth == Construct

SpecAuth == InitAuth /\ [][NextAuth]_vars

(***************************************************************************)
(* C4. Authentication mutual exclusivity. As claimed: over the 64          *)
(* combinations of fields that are set, construction succeeds exactly for  *)
(* none set, token only, oauth only, oauth with both of client_id and      *)
(* client_secret and no Azure field, oauth with both of azure_client_id    *)
(* and azure_client_secret and no generic field.                           *)
(* As amended: the same, where the two members of a credential pair given  *)
(* with oauth must both be non-empty strings.                              *)
(***************************************************************************)
IsSet(kw, key) == Has(kw, key)

NonEmpty(kw, key) == Has(kw, key) /\ Get(kw, key) # StrV("")

\* The combinations the claim lists; nonEmpty says whether the members of
\* a credential pair given with oauth must be non-empty to count.
AllowedAuth(kw, nonEmpty) ==
    LET t == IsSet(kw, "token")
        o == IsSet(kw, "auth_type")
        ci == IsSet(kw, "client_id")
        cs == IsSet(kw, "client_secret")
        ai == IsSet(kw, "azure_client_id")
        as == IsSet(kw, "azure_client_secret")
        Given(key) == IF nonEmpty THEN NonEmpty(kw, key) ELSE IsSet(kw, key)
    IN \/ ~t /\ ~o /\ ~ci /\ ~cs /\ ~ai /\ ~as
       \/ t /\ ~o /\ ~ci /\ ~cs /\ ~ai /\ ~as
       \/ ~t /\ o /\ ~ci /\ ~cs /\ ~ai /\ ~as
       \/ ~t /\ o /\ Given("client_id") /\ Given("client_secret")
            /\ ~ai /\ ~as
       \/ ~t /\ o /\ Given("azure_client_id")
            /\ Given("azure_client_secret") /\ ~ci /\ ~cs

DeleteProfileOutcomes ==
    last.op = "delete_profile" =>
        IF ~HasProfile(prev, last.name)
        THEN last.exc = "ProfileNotFoundError" /\ doc = prev
        ELSE /\ last.exc = NoExc
             /\ ~HasProfile(doc, last.name)
             /\ Value(doc) = Del(Value(prev), last.name)
             /\ Len(doc.root) = Len(prev.root) - 1
             /\ Len(doc.heap) <= Len(prev.heap)
             /\ (Len(prev.root) = 1 => doc = EmptyProfiles)

\* The only profile was deleted, with its two outputs.
DeleteProfileLastWitness ==
    /\ last.op = "delete_profile"
    /\ last.exc = NoExc
    /\ Len(prev.root) = 1
    /\ Len(prev.heap) = 2
    /\ doc = EmptyProfiles

(***************************************************************************)
(* C12. DuckDB memory normalization as an invariant of the documents: in   *)
(* every document a session holds, parsed or edited, every DuckDB output   *)
(* whose path is ":memory:" has the database "memory".                     *)
(***************************************************************************)
MemoryNormalization ==
    \A r \in 1..Len(doc.heap) :
        (doc.heap[r].type = "duckdb" /\ doc.heap[r].path = ":memory:")
            => doc.heap[r].database = "memory"

(***************************************************************************)
(* Parsing and construction: a profiles.yml text of one profile with one   *)
(* output is parsed (from_yaml), its output is constructed from keyword    *)
(* arguments, and a parsed document is serialized and parsed again or      *)
(* given one more profile.                                                 *)
(***************************************************************************)
\* threads of an output: not given, or given.
ThreadsValues == {None, Some(-1), Some(0), Some(1), Some(4)}

\* host of a Databricks output.
HostValues ==
    { <<"myorg.databricks.com">>,
      <<"https://", "myorg.databricks.com">>,
      <<"http://", "myorg.databricks.com">>,
      <<"https://", "https://", "myorg.databricks.com">>,
      <<"http://", "https://", "myorg.databricks.com">> }

\* path and database of a DuckDB output.
PathDatabaseValues ==
    { <<>>,
      <<Entry("path", StrV(":memory:")), Entry("database", StrV("mydb"))>>,
      <<Entry("path", StrV("test.duckdb")), Entry("database", StrV("mydb"))>> }

\* Keys of an output that are no field of its class.
OutputExtras ==
    { <<>>,
      <<Entry("custom_key", StrV("kept"))>>,
      <<Entry("custom_key", NullV)>>,
      <<Entry("custom_key", MapV(<<Entry("nested", IntV(1))>>))>> }

\* Top-level keys of the text next to the profile: none, the config block
\* of dbt, a scalar.
TopLevelExtras ==
    { <<>>,
      <<Entry("config", MapV(<<Entry("printer_width", IntV(120))>>))>>,
      <<Entry("version", IntV(2))>> }

\* Profile names, the empty string among them.
NameArgs == {"", "a"}

DuckDbData(pd, threads, extra) ==
    <<Entry("type", StrV("duckdb"))>> \o pd \o OptIntEntry("threads", threads)
      \o extra

DatabricksData(host, threads, extra) ==
    <<Entry("type", StrV("databricks")), Entry("schema", StrV("my_schema")),
      Entry("host", StrV(host)),
      Entry("http_path", StrV(<<"/", "sql/1.0/warehouses/abc123">>)),
      Entry("token", StrV("dapi123"))>>
      \o OptIntEntry("threads", threads) \o extra

OutputDatas ==
    {DuckDbData(pd, threads, extra) :
        pd \in PathDatabaseValues, threads \in ThreadsValues,
        extra \in OutputExtras}
      \cup {DatabricksData(host, threads, extra) :
              host \in HostValues, threads \in ThreadsValues,
              extra \in OutputExtras}

\* The text of one profile name with the output dev, and the top-level
\* keys top after it.
ProfilesText(name, kw, top) ==
    dump(MapV(<<Entry(name, MapV(<<
                  Entry("target", StrV("dev")),
                  Entry("outputs", MapV(<<Entry("dev", MapV(kw))>>))>>))>>
              \o top))

\* The input of a run: the text, and the parts it was written from.
InitParse ==
    /\ \E name \in NameArgs, kw \in OutputDatas, top \in TopLevelExtras :
          last = [op |-> "input", name |-> name, kw |-> kw, top |-> top,
                  text |-> ProfilesText(name, kw, top), config |-> NoObject,
                  exc |-> NoExc]
    /\ doc = EmptyProfiles
    /\ prev = doc
    /\ steps = 0
    /\ disk = FreshDisk

\* DbtProfiles.from_yaml(text).
FromYaml ==
    /\ last.op = "input"
    /\ LET res == from_yaml(last.text)
       IN /\ doc' = IF res.ok THEN res.profiles ELSE doc
          /\ last' = [last EXCEPT !.op = "from_yaml",
                         !.exc = IF res.ok THEN NoExc ELSE "ValueError"]
    /\ prev' = doc
    /\ steps' = steps + 1
    /\ disk' = disk

\* DuckDbOutput(**kw) or DatabricksOutput(**kw), by the type of kw.
ConstructOutput ==
    /\ last.op = "input"
    /\ LET res == IF Get(last.kw, "type") = StrV("duckdb")
                  THEN DuckDbOutput(last.kw)
                  ELSE DatabricksOutput(last.kw)
       IN last' = [last EXCEPT !.op = "OutputConfig",
                      !.config = IF res.ok THEN res.obj ELSE NoObject,
                      !.exc = IF res.ok THEN NoExc ELSE "ValidationError"]
    /\ steps' = steps + 1
    /\ UNCHANGED <<doc, prev, disk>>

\* DbtProfiles.from_yaml(profiles.to_yaml()) on a parsed document.
RoundTrip ==
    /\ last.op = "from_yaml"
    /\ last.exc = NoExc
    /\ LET res == from_yaml(to_yaml(doc))
       IN /\ doc' = IF res.ok THEN res.profiles ELSE doc
          /\ last' = [last EXCEPT !.op = "round_trip",
                         !.exc = IF res.ok THEN NoExc ELSE "ValueError"]
    /\ prev' = doc
    /\ steps' = steps + 1
    /\ disk' = disk

\* add_profile on a parsed document, with a name of NameArgs and a new
\* DuckDbOutput.
AddProfileNamed ==
    /\ last.op = "from_yaml"
    /\ last.exc = NoExc
    /\ \E name \in NameArgs, kw \in ConfigArgs :
          LET self == Alloc(doc, DuckDbOutput(kw).obj)
              res == add_profile(self, name, "dev", "dev", Len(self.heap))
          IN /\ doc' = Collect(res.profiles)
             /\ last' = [last EXCEPT !.op = "add_profile", !.name = name,
                            !.config = DuckDbOutput(kw).obj, !.exc = res.exc]
    /\ prev' = doc
    /\ steps' = steps + 1
    /\ disk' = disk

NextParse ==
    \/ FromYaml
    \/ ConstructOutput
    \/ RoundTrip
    \/ AddProfileNamed

SpecParse == InitParse /\ [][NextParse]_vars

\* threads is given in kw, below 1.
ThreadsBelowOne(kw) == Has(kw, "threads") /\ Get(kw, "threads").int < 1

(***************************************************************************)
(* C13. threads lower bound on both variants: parsing or constructing an   *)
(* output of type duckdb or databricks whose threads is below 1 fails, and *)
(* no accepted output of either variant has threads below 1.               *)
(***************************************************************************)
ThreadsLowerBound ==
    /\ (last.op \in {"from_yaml", "OutputConfig"} /\ ThreadsBelowOne(last.kw))
          => last.exc # NoExc
    /\ (last.op = "OutputConfig" /\ last.exc = NoExc)
          => last.config.threads >= 1
    /\ \A r \in 1..Len(doc.heap) : doc.heap[r].threads >= 1

(***************************************************************************)
(* The session with its file: the document is loaded as the CLI loads it,  *)
(* then edited, inspected, saved and loaded in any order.                  *)
(***************************************************************************)
\* The path argument of load_profiles and save_profiles.
ProfilePathArgs == {None, Some(NestedPath)}

\* _run_cli_action: load_profiles, and DbtProfiles(root={}) when it raises
\* FileNotFoundError.
LoadOrEmpty(fs, path) ==
    IF load_profiles(fs, path).exc = "FileNotFoundError" THEN EmptyProfiles
    ELSE load_profiles(fs, path).profiles

\* No profiles file and no ~/.dbt, or ~/.dbt/profiles.yml with a text.
InitDisks ==
    { FreshDisk,
      write_text(mkdir(FreshDisk, Parent(DEFAULT_PROFILE_PATH)),
                 DEFAULT_PROFILE_PATH, SampleText) }

InitFile ==
    /\ disk \in InitDisks
    /\ doc = LoadOrEmpty(disk, None)
    /\ prev = doc
    /\ last = NoCall
    /\ steps = 0

GetProfileNames ==
    Called([NoCall EXCEPT !.op = "get_profile_names"], Return(doc))

GetOutputNames ==
    \E name \in ProfileNames :
        Called([NoCall EXCEPT !.op = "get_output_names", !.name = name],
               Raise(get_output_names(doc, name).exc, doc))

GetOutput ==
    \E name \in ProfileNames, output_name \in OutputNames :
        Called([NoCall EXCEPT !.op = "get_output", !.name = name,
                   !.output_name = output_name],
               Raise(get_output(doc, name, output_name).exc, doc))

\* profiles = load_profiles(path): the caller holds the returned document,
\* or what it held when the call raises.
LoadProfiles ==
    \E path \in ProfilePathArgs :
        LET res == load_profiles(disk, path)
        IN /\ steps < MaxOps
           /\ doc' = IF res.exc = NoExc THEN res.profiles ELSE doc
           /\ prev' = doc
           /\ last' = [op |-> "load_profiles", profile_path |-> path,
                       before |-> disk, exc |-> res.exc]
           /\ steps' = steps + 1
           /\ disk' = disk

\* save_profiles(profiles, path) on the document the caller holds.
SaveProfiles ==
    \E path \in ProfilePathArgs :
        LET res == save_profiles(disk, doc, path)
        IN /\ steps < MaxOps
           /\ disk' = res.disk
           /\ prev' = doc
           /\ last' = [op |-> "save_profiles", profile_path |-> path,
                       before |-> disk, exc |-> res.exc]
           /\ steps' = steps + 1
           /\ doc' = doc

NextFile ==
    \/ Next
    \/ GetProfileNames
    \/ GetOutputNames
    \/ GetOutput
    \/ LoadProfiles
    \/ SaveProfiles

SpecFile == InitFile /\ [][NextFile]_vars

\* The path a call of load_profiles or save_profiles works on.
TargetPath(call) ==
    IF call.profile_path # None THEN call.profile_path[1]
    ELSE DEFAULT_PROFILE_PATH

(***************************************************************************)
(* C14. save_profiles validates, then writes: when the text of the         *)
(* document does not parse back, the call raises and the file system is    *)
(* as it was (no directory made, no file made or changed); otherwise the   *)
(* parent directory exists and the file holds the text, the other files    *)
(* are as they were, and load_profiles of that path returns the document   *)
(* the text denotes. Every file on disk can be loaded.                     *)
(***************************************************************************)
ValidateThenWrite ==
    /\ last.op = "save_profiles" =>
         IF ~from_yaml(to_yaml(doc)).ok
         THEN last.exc = "ValueError" /\ disk = last.before
         ELSE /\ last.exc = NoExc
              /\ \A n \in 1..(Len(TargetPath(last)) - 1) :
                    SubSeq(TargetPath(last), 1, n) \in disk.dirs
              /\ disk.files[TargetPath(last)] = Some(to_yaml(doc))
              /\ \A p \in Paths \ {TargetPath(last)} :
                    disk.files[p] = last.before.files[p]
              /\ load_profiles(disk, last.profile_path).exc = NoExc
              /\ load_profiles(disk, last.profile_path).profiles
                   = from_yaml(to_yaml(doc)).profiles
    /\ \A p \in Paths : exists(disk, p) => load_profiles(disk, Some(p)).exc = NoExc

\* A save to a path in a directory that does not exist was refused for a
\* document whose text does not parse back, and nothing was made.
SaveRefusedWitness ==
    /\ last.op = "save_profiles"
    /\ last.exc = "ValueError"
    /\ last.profile_path = Some(NestedPath)
    /\ Parent(NestedPath) \notin disk.dirs
    /\ ~exists(disk, NestedPath)
    /\ ~from_yaml(to_yaml(doc)).ok

(***************************************************************************)
(* C15. load_profiles of a path with no file raises FileNotFoundError: it  *)
(* returns no document (the caller holds what it held) and the file system *)
(* is as it was, the file still missing. The empty document in place of a  *)
(* missing file comes from the caller alone.                               *)
(***************************************************************************)
LoadMissingFails ==
    /\ last.op = "load_profiles" =>
         /\ disk = last.before
         /\ ~exists(last.before, TargetPath(last)) =>
              /\ last.exc = "FileNotFoundError"
              /\ doc = prev
              /\ ~exists(disk, TargetPath(last))
    /\ \A path \in ProfilePathArgs :
          ~exists(disk, TargetPath([profile_path |-> path])) =>
              /\ load_profiles(disk, path).exc = "FileNotFoundError"
              /\ LoadOrEmpty(disk, path) = EmptyProfiles

\* load_profiles raised for a missing file while the caller held a
\* document that is not empty.
LoadMissingWitness ==
    /\ last.op = "load_profiles"
    /\ last.exc = "FileNotFoundError"
    /\ ~exists(disk, TargetPath(last))
    /\ doc # EmptyProfiles
    /\ doc = prev

FieldsOfData(kw) ==
    IF Get(kw, "type") = StrV("duckdb") THEN DuckDbFields ELSE DatabricksFields

WithoutExtras(kw) == SelectSeq(kw, LAMBDA e : e.k \in FieldsOfData(kw))

ExtrasOfData(kw) == ExtraOf(kw, FieldsOfData(kw))

\* Every entry of extras is an extra of the instance o, with its value.
Preserved(extras, o) ==
    \A i \in 1..Len(extras) :
        Has(o.extra, extras[i].k) /\ Get(o.extra, extras[i].k) = extras[i].v

(***************************************************************************)
(* C17. Unknown extra fields of an output of either variant: a text is     *)
(* accepted with them exactly if it is accepted without them, the parsed   *)
(* output has them, and the output still has each of them with the same    *)
(* value after serialization and a second parse, also when a profile was   *)
(* added in between.                                                       *)
(***************************************************************************)
ExtrasSurvive ==
    /\ last.op = "from_yaml" =>
         /\ last.exc = NoExc <=>
              from_yaml(ProfilesText(last.name, WithoutExtras(last.kw),
                                     last.top)).ok
         /\ last.exc = NoExc =>
              Preserved(ExtrasOfData(last.kw), doc.heap[1])
    /\ last.op = "round_trip" =>
         /\ last.exc = NoExc
         /\ Preserved(ExtrasOfData(last.kw), doc.heap[1])
    /\ last.op = "add_profile" =>
         /\ from_yaml(to_yaml(doc)).ok
         /\ Preserved(ExtrasOfData(last.kw),
                      from_yaml(to_yaml(doc)).profiles.heap[1])

(***************************************************************************)
(* C18. Top-level keys whose value is no profile definition: a text is     *)
(* accepted with them exactly if it is accepted without them, and they are *)
(* in the serialized text of the parsed document, with the same value.     *)
(***************************************************************************)
TopLevelPreserved ==
    /\ last.op = "from_yaml" =>
         (last.exc = NoExc <=>
            from_yaml(ProfilesText(last.name, last.kw, <<>>)).ok)
    /\ last.op = "round_trip" =>
         \A i \in 1..Len(last.top) :
            /\ Has(safe_load(to_yaml(prev)).map, last.top[i].k)
            /\ Get(safe_load(to_yaml(prev)).map, last.top[i].k) = last.top[i].v

(***************************************************************************)
(* C19. Profile names are never empty: every key of the profile mapping of *)
(* every document, parsed or edited, is a non-empty string.                *)
(***************************************************************************)
NonEmptyProfileNames == \A i \in 1..Len(doc.root) : doc.root[i].k # ""

\* v begins with a protocol prefix.
HasProtocol(v) == StartsWith(v, "https://") \/ StartsWith(v, "http://")

(***************************************************************************)
(* C20. Host canonicalization: the host stored in a Databricks output,     *)
(* parsed or constructed, does not begin with "http://" or "https://",     *)
(* and serializing and parsing the document again yields the same host.    *)
(***************************************************************************)
HostCanonical ==
    /\ \A r \in 1..Len(doc.heap) :
          doc.heap[r].type = "databricks" => ~HasProtocol(doc.heap[r].host)
    /\ (last.op = "OutputConfig" /\ last.config.type = "databricks")
          => ~HasProtocol(last.config.host)
    /\ last.op = "round_trip" =>
          \A r \in 1..Len(doc.heap) :
              doc.heap[r].type = "databricks"
                  => doc.heap[r].host = prev.heap[r].host

(***************************************************************************)
(* The output union: texts whose output has any type, or none, over the    *)
(* fields of a DuckDB or of a Databricks output.                           *)
(***************************************************************************)
\* The type entry of an output: absent, the two identifiers, others.
TypeValues ==
    { <<>>,
      <<Entry("type", StrV("duckdb"))>>,
      <<Entry("type", StrV("databricks"))>>,
      <<Entry("type", StrV("snowflake"))>>,
      <<Entry("type", StrV("DuckDB"))>>,
      <<Entry("type", StrV(""))>>,
      <<Entry("type", NullV)>>,
      <<Entry("type", IntV(1))>> }

\* The entries of an output after its type.
BodyValues == {Tail(kw) : kw \in OutputDatas}

UnionDatas == {t \o body : t \in TypeValues, body \in BodyValues}

InitUnion ==
    /\ \E kw \in UnionDatas :
          last = [op |-> "input", name |-> "a", kw |-> kw, top |-> <<>>,
                  text |-> ProfilesText("a", kw, <<>>), config |-> NoObject,
                  exc |-> NoExc]
    /\ doc = EmptyProfiles
    /\ prev = doc
    /\ steps = 0
    /\ disk = FreshDisk

\* Validation of the output data alone against OutputConfig.
ValidateOutput ==
    /\ last.op = "input"
    /\ LET res == OutputConfig(MapV(last.kw))
       IN last' = [last EXCEPT !.op = "validate",
                      !.config = IF res.ok THEN res.obj ELSE NoObject,
                      !.exc = IF res.ok THEN NoExc ELSE "ValidationError"]
    /\ steps' = steps + 1
    /\ UNCHANGED <<doc, prev, disk>>

NextUnion ==
    \/ FromYaml
    \/ ValidateOutput

SpecUnion == InitUnion /\ [][NextUnion]_vars

\* The type of the output data kw is the identifier t.
TypeIs(kw, t) == Has(kw, "type") /\ Get(kw, "type") = StrV(t)

(***************************************************************************)
(* C21. The output union is closed: an output is accepted, alone or in a   *)
(* document, exactly when its type is "duckdb" and DuckDbOutput accepts    *)
(* it or its type is "databricks" and DatabricksOutput accepts it; any     *)
(* other type, or none, is a validation error. The accepted instance is of *)
(* the class its type names: a duckdb output that has the fields of a      *)
(* Databricks output keeps them as extras, and a databricks output that    *)
(* has only the fields of a DuckDB output is rejected.                     *)
(***************************************************************************)
ClosedUnion ==
    last.op \in {"from_yaml", "validate"} =>
        /\ last.exc = NoExc <=>
             \/ TypeIs(last.kw, "duckdb") /\ DuckDbOutput(last.kw).ok
             \/ TypeIs(last.kw, "databricks") /\ DatabricksOutput(last.kw).ok
        /\ ~(TypeIs(last.kw, "duckdb") \/ TypeIs(last.kw, "databricks"))
             => last.exc # NoExc
        /\ (TypeIs(last.kw, "databricks") /\ ~Has(last.kw, "host"))
             => last.exc # NoExc
        /\ (last.op = "validate" /\ last.exc = NoExc) =>
             /\ TypeIs(last.kw, last.config.type)
             /\ last.config.type = "duckdb" =>
                  (Has(last.kw, "host") <=> Has(last.config.extra, "host"))
        /\ (last.op = "from_yaml" /\ last.exc = NoExc) =>
             /\ Len(doc.heap) = 1
             /\ TypeIs(last.kw, doc.heap[1].type)

\* An output of type duckdb with the fields of a Databricks output was
\* accepted as a DuckDB output.
ClosedUnionWitness ==
    /\ last.op = "validate"
    /\ last.exc = NoExc
    /\ last.config.type = "duckdb"
    /\ Has(last.config.extra, "host")
    /\ Has(last.config.extra, "token")

\* s without the element x, the others in their order.
Without(s, x) == SelectSeq(s, LAMBDA e : e # x)

\* The output names get_output_names lists for every profile of self.
OutputListing(self) ==
    [i \in 1..Len(self.root) |->
        Entry(self.root[i].k, get_output_names(self, self.root[i].k).val)]

Stopped(exc, profiles, fs) == [exc |-> exc, profiles |-> profiles, disk |-> fs]

\* The Editor call of a handler returned res; when it did not raise, the
\* handler goes on to save_profiles(profiles, target_path).
ThenSave(fs, res, target_path) ==
    IF res.exc # NoExc THEN Stopped(res.exc, res.profiles, fs)
    ELSE LET after(saved) == [exc |-> saved.exc, profiles |-> res.profiles,
                              disk |-> saved.disk]
         IN after(save_profiles(fs, res.profiles, Some(target_path)))

\* value or default, on an Optional[str].
OrElse(o, default) == IF Truthy(o) THEN o[1] ELSE default

\* threads or 1.
ThreadsOrOne(threads) ==
    IF threads # None /\ threads[1] # 0 THEN threads[1] ELSE 1

\* DuckDbOutput(type="duckdb", path=path_value, threads=threads).
NewDuckDb(path_value, threads) ==
    DuckDbOutput(<<Entry("type", StrV("duckdb")),
                   Entry("path", StrV(path_value)),
                   Entry("threads", IntV(threads))>>)

handle_add_profile(fs, profiles, target_path, profile_name, target_name, output_name, path_value, threads) ==
    IF ~Truthy(profile_name) THEN Stopped("Exit", profiles, fs)
    ELSE LET target == OrElse(target_name, "dev")
             output == OrElse(output_name, target)
             output_config == NewDuckDb(OrElse(path_value, ":memory:"),
                                        ThreadsOrOne(threads))
         IN IF ~output_config.ok
            THEN Stopped("ValidationError", profiles, fs)
            ELSE ThenSave(fs, add_profile(Alloc(profiles, output_config.obj),
                                          profile_name[1], target, output,
                                          Len(profiles.heap) + 1),
                          target_path)

handle_edit_profile(fs, profiles, target_path, profile_name, target_name) ==
    IF ~Truthy(profile_name) THEN Stopped("Exit", profiles, fs)
    ELSE IF ~Truthy(target_name) THEN Stopped("Exit", profiles, fs)
    ELSE ThenSave(fs, update_profile_target(profiles, profile_name[1],
                                            target_name[1]),
                  target_path)

\* confirm says what the user answers when asked.
handle_delete_profile_cli(fs, profiles, target_path, profile_name, force, confirm) ==
    IF ~Truthy(profile_name) THEN Stopped("Exit", profiles, fs)
    ELSE IF ~force /\ ~confirm THEN Stopped("Abort", profiles, fs)
    ELSE ThenSave(fs, delete_profile(profiles, profile_name[1]), target_path)

handle_add_output_cli(fs, profiles, target_path, profile_name, output_name, path_value, threads) ==
    IF ~Truthy(profile_name) THEN Stopped("Exit", profiles, fs)
    ELSE IF ~Truthy(output_name) THEN Stopped("Exit", profiles, fs)
    ELSE LET output_config == NewDuckDb(OrElse(path_value, ":memory:"),
                                        ThreadsOrOne(threads))
         IN IF ~output_config.ok
            THEN Stopped("ValidationError", profiles, fs)
            ELSE ThenSave(fs, add_output(Alloc(profiles, output_config.obj),
                                         profile_name[1], output_name[1],
                                         Len(profiles.heap) + 1),
                          target_path)

handle_edit_output_cli(fs, profiles, target_path, profile_name, output_name, path_value, threads) ==
    IF ~Truthy(profile_name) THEN Stopped("Exit", profiles, fs)
    ELSE IF ~Truthy(output_name) THEN Stopped("Exit", profiles, fs)
    ELSE IF path_value = None /\ threads = None
    THEN Stopped("Exit", profiles, fs)
    ELSE ThenSave(fs, update_output(profiles, profile_name[1], output_name[1],
                                    path_value, threads),
                  target_path)

\* delete-output that saves the document before it deletes the output.
handle_delete_output_cli_SaveFirst(fs, profiles, target_path, profile_name, output_name, force, confirm) ==
    IF ~Truthy(profile_name) THEN Stopped("Exit", profiles, fs)
    ELSE IF ~Truthy(output_name) THEN Stopped("Exit", profiles, fs)
    ELSE IF ~force /\ ~confirm THEN Stopped("Abort", profiles, fs)
    ELSE LET saved == ThenSave(fs, Return(profiles), target_path)
             res == delete_output(profiles, profile_name[1], output_name[1])
         IN IF saved.exc # NoExc THEN saved
            ELSE Stopped(res.exc, res.profiles, saved.disk)

handle_delete_output_cli(fs, profiles, target_path, profile_name, output_name, force, confirm) ==
    IF ~Truthy(profile_name) THEN Stopped("Exit", profiles, fs)
    ELSE IF ~Truthy(output_name) THEN Stopped("Exit", profiles, fs)
    ELSE IF ~force /\ ~confirm THEN Stopped("Abort", profiles, fs)
    ELSE ThenSave(fs, delete_output(profiles, profile_name[1], output_name[1]),
                  target_path)

\* The arguments of one invocation of the edit command with --action.
NoInvocation ==
    [op |-> "edit", action |-> "", profile_path |-> None, profile |-> None,
     output |-> None, target |-> None, path_value |-> None, threads |-> None,
     force |-> FALSE, confirm |-> FALSE, code |-> 0, before |-> FreshDisk]

dispatch_cli_action(fs, profiles, target_path, a) ==
    IF a.action = "add-profile"
    THEN handle_add_profile(fs, profiles, target_path, a.profile, a.target,
                            a.output, a.path_value, a.threads)
    ELSE IF a.action = "edit-profile"
    THEN handle_edit_profile(fs, profiles, target_path, a.profile, a.target)
    ELSE IF a.action = "delete-profile"
    THEN handle_delete_profile_cli(fs, profiles, target_path, a.profile,
                                   a.force, a.confirm)
    ELSE IF a.action = "add-output"
    THEN handle_add_output_cli(fs, profiles, target_path, a.profile, a.output,
                               a.path_value, a.threads)
    ELSE IF a.action = "edit-output"
    THEN handle_edit_output_cli(fs, profiles, target_path, a.profile, a.output,
                                a.path_value, a.threads)
    ELSE handle_delete_output_cli(fs, profiles, target_path, a.profile,
                                  a.output, a.force, a.confirm)

\* run_cli_action that gives up when there is no profiles file.
run_cli_action_NoFallback(fs, a) ==
    LET target_path == IF a.profile_path # None THEN a.profile_path[1]
                       ELSE get_default_profile_path
        exited(profiles, res) ==
            [code |-> IF res.exc = NoExc THEN 0 ELSE 1, loaded |-> profiles,
             profiles |-> res.profiles, disk |-> res.disk]
        dispatched(profiles) ==
            exited(profiles, dispatch_cli_action(fs, profiles, target_path, a))
        started(loaded) ==
            IF loaded.exc # NoExc
            THEN [code |-> 1, loaded |-> EmptyProfiles,
                  profiles |-> EmptyProfiles, disk |-> fs]
            ELSE dispatched(loaded.profiles)
    IN started(load_profiles(fs, Some(target_path)))

\* _run_cli_action: [code, loaded, profiles, disk]. code is the exit code
\* of the process (1 for typer.Exit(1), a declined confirmation and an
\* exception nothing catches), loaded the document it started from.
run_cli_action(fs, a) ==
    LET target_path == IF a.profile_path # None THEN a.profile_path[1]
                       ELSE get_default_profile_path
        exited(profiles, res) ==
            [code |-> IF res.exc = NoExc THEN 0 ELSE 1, loaded |-> profiles,
             profiles |-> res.profiles, disk |-> res.disk]
        dispatched(profiles) ==
            exited(profiles, dispatch_cli_action(fs, profiles, target_path, a))
        started(loaded) ==
            IF loaded.exc = "ValueError"
            THEN [code |-> 1, loaded |-> EmptyProfiles,
                  profiles |-> EmptyProfiles, disk |-> fs]
            ELSE dispatched(IF loaded.exc = "FileNotFoundError"
                            THEN EmptyProfiles ELSE loaded.profiles)
    IN started(load_profiles(fs, Some(target_path)))

(***************************************************************************)
(* The command line: one process running                                   *)
(* `brix dbt profile edit --action ...` on a file system that earlier      *)
(* processes left. prev is the document the process started from, doc the  *)
(* one it held when it exited, last its arguments, its exit code and the   *)
(* file system it found.                                                   *)
(***************************************************************************)

CliProfileArgs == {None, Some(""), Some("a"), Some("b")}
CliOutputArgs == {None, Some("dev"), Some("prod")}
CliTargetArgs == {None, Some("prod")}
CliPathArgs == {None, Some("new.duckdb")}
CliThreadsArgs == {None, Some(0), Some(8)}
\* --force, or the answer to the confirmation when it is asked.
CliConfirmArgs == {<<TRUE, FALSE>>, <<FALSE, TRUE>>, <<FALSE, FALSE>>}

\* What the process can find at ~/.dbt/profiles.yml: no file, a file that
\* save_profiles wrote, a file written by hand, a file that is not YAML.
CliDisks ==
    { FreshDisk } \cup
    { write_text(mkdir(FreshDisk, Parent(DEFAULT_PROFILE_PATH)),
                 DEFAULT_PROFILE_PATH, text) :
        text \in InitTexts \cup {Malformed, to_yaml(from_yaml(SampleText).profiles)} }

InitCli ==
    /\ disk \in CliDisks
    /\ doc = EmptyProfiles
    /\ prev = EmptyProfiles
    /\ last = NoInvocation
    /\ steps = 0

Invoked(a) ==
    /\ last = NoInvocation
    /\ steps' = steps + 1
    /\ \E res \in {run_cli_action(disk, a)} :
          /\ disk' = res.disk
          /\ doc' = Collect(res.profiles)
          /\ prev' = res.loaded
          /\ last' = [a EXCEPT !.code = res.code, !.before = disk]

CliAddProfile ==
    \E pp \in ProfilePathArgs, p \in CliProfileArgs, t \in CliTargetArgs, o \in CliTargetArgs, pv \in CliPathArgs, th \in CliThreadsArgs \ {Some(8)} :
        Invoked([NoInvocation EXCEPT !.action = "add-profile",
                   !.profile_path = pp, !.profile = p, !.target = t,
                   !.output = o, !.path_value = pv, !.threads = th])

CliEditProfile ==
    \E pp \in ProfilePathArgs, p \in CliProfileArgs, t \in CliTargetArgs :
        Invoked([NoInvocation EXCEPT !.action = "edit-profile",
                   !.profile_path = pp, !.profile = p, !.target = t])

CliDeleteProfile ==
    \E pp \in ProfilePathArgs, p \in CliProfileArgs, fc \in CliConfirmArgs :
        Invoked([NoInvocation EXCEPT !.action = "delete-profile",
                   !.profile_path = pp, !.profile = p, !.force = fc[1],
                   !.confirm = fc[2]])

CliAddOutput ==
    \E pp \in ProfilePathArgs, p \in CliProfileArgs, o \in CliOutputArgs, pv \in CliPathArgs, th \in CliThreadsArgs :
        Invoked([NoInvocation EXCEPT !.action = "add-output",
                   !.profile_path = pp, !.profile = p, !.output = o,
                   !.path_value = pv, !.threads = th])

CliEditOutput ==
    \E pp \in ProfilePathArgs, p \in CliProfileArgs, o \in CliOutputArgs, pv \in CliPathArgs, th \in CliThreadsArgs :
        Invoked([NoInvocation EXCEPT !.action = "edit-output",
                   !.profile_path = pp, !.profile = p, !.output = o,
                   !.path_value = pv, !.threads = th])

CliDeleteOutput ==
    \E pp \in ProfilePathArgs, p \in CliProfileArgs, o \in CliOutputArgs, fc \in CliConfirmArgs :
        Invoked([NoInvocation EXCEPT !.action = "delete-output",
                   !.profile_path = pp, !.profile = p, !.output = o,
                   !.force = fc[1], !.confirm = fc[2]])

NextCli ==
    \/ CliAddProfile
    \/ CliEditProfile
    \/ CliDeleteProfile
    \/ CliAddOutput
    \/ CliEditOutput
    \/ CliDeleteOutput

SpecCli == InitCli /\ [][NextCli]_vars

\* The file the last process worked on, and whether it found one.
CliPath == IF last.profile_path # None THEN last.profile_path[1] ELSE DEFAULT_PROFILE_PATH
CliRan == last.op = "edit" /\ last.action # ""

\* C23: a process that finds no profiles file starts from the empty
\* document; add-profile with a profile name exits with 0 and leaves a file
\* whose text is the document of exactly that one profile, and every other
\* action exits with 1 and leaves the file system as it was, without the
\* file.
MissingFileAction ==
    (CliRan /\ ~exists(last.before, CliPath)) =>
        /\ prev = EmptyProfiles
        /\ IF last.action = "add-profile" /\ Truthy(last.profile)
           THEN /\ last.code = 0
                /\ exists(disk, CliPath)
                /\ disk.files[CliPath] = Some(to_yaml(doc))
                /\ get_profile_names(doc) = <<last.profile[1]>>
                /\ from_yaml(disk.files[CliPath][1]).ok
                /\ get_profile_names(from_yaml(disk.files[CliPath][1]).profiles)
                     = <<last.profile[1]>>
           ELSE /\ last.code = 1
                /\ disk = last.before
                /\ ~exists(disk, CliPath)

\* add-profile created the nested file and its directories.
MissingFileWitness ==
    /\ CliRan /\ last.action = "add-profile" /\ last.code = 0
    /\ CliPath = NestedPath
    /\ ~exists(last.before, NestedPath)
    /\ exists(disk, NestedPath)
    /\ Parent(NestedPath) \in disk.dirs

\* The Editor operation of the last process, applied to the document it
\* loaded.
CliOperation ==
    LET a == last
        th == ThreadsOrOne(a.threads)
        pv == OrElse(a.path_value, ":memory:")
        held == Len(prev.heap) + 1
    IN IF a.action = "add-profile"
       THEN add_profile(Alloc(prev, NewDuckDb(pv, th).obj), a.profile[1],
                        OrElse(a.target, "dev"),
                        OrElse(a.output, OrElse(a.target, "dev")), held)
       ELSE IF a.action = "edit-profile"
       THEN update_profile_target(prev, a.profile[1], a.target[1])
       ELSE IF a.action = "delete-profile"
       THEN delete_profile(prev, a.profile[1])
       ELSE IF a.action = "add-output"
       THEN add_output(Alloc(prev, NewDuckDb(pv, th).obj), a.profile[1],
                       a.output[1], held)
       ELSE IF a.action = "edit-output"
       THEN update_output(prev, a.profile[1], a.output[1], a.path_value,
                          a.threads)
       ELSE delete_output(prev, a.profile[1], a.output[1])

\* The options the action of the last process requires were given, and the
\* user did not decline.
CliCallable ==
    /\ Truthy(last.profile)
    /\ last.action = "edit-profile" => Truthy(last.target)
    /\ last.action \in {"add-output", "edit-output", "delete-output"}
         => Truthy(last.output)
    /\ last.action = "edit-output"
         => (last.path_value # None \/ last.threads # None)
    /\ last.action \in {"delete-profile", "delete-output"}
         => (last.force \/ last.confirm)
    /\ (exists(last.before, CliPath)
         => from_yaml(last.before.files[CliPath][1]).ok)

\* C24: a process whose Editor operation or save validation failed exits
\* with 1 and leaves the file system as it was; a process that changes the
\* file system exited with 0, its Editor operation succeeded, and the file
\* holds the text of the result of that operation on the loaded document.
AllOrNothing ==
    CliRan =>
        /\ last.code \in {0, 1}
        /\ last.code = 1 => disk = last.before
        /\ ~CliCallable => last.code = 1
        /\ CliCallable =>
             /\ (CliOperation.exc # NoExc => last.code = 1)
             /\ (CliOperation.exc = NoExc
                   /\ ~from_yaml(to_yaml(CliOperation.profiles)).ok)
                  => last.code = 1
             /\ last.code = 0 =>
                  /\ CliOperation.exc = NoExc
                  /\ disk.files[CliPath] =
                       Some(to_yaml(CliOperation.profiles))
                  /\ \A q \in Paths \ {CliPath} :
                       disk.files[q] = last.before.files[q]

\* The Editor operation succeeded on a loaded file and the save refused
\* its result: exit code 1, file as before.
AllOrNothingWitness ==
    /\ CliRan /\ CliCallable
    /\ exists(last.before, CliPath)
    /\ CliOperation.exc = NoExc
    /\ ~from_yaml(to_yaml(CliOperation.profiles)).ok
    /\ last.code = 1
    /\ disk = last.before

(***************************************************************************)
(* modules/dbt/profile/service.py: init_profile. brix.templates is not     *)
(* part of the sources; get_template follows the specification's template  *)
(* provider: the text of a known template, NotFoundError otherwise.        *)
(***************************************************************************)
MaxInits == 2

\* The bundled profiles.yml: a working default profile on DuckDB.
TemplateText ==
    dump(MapV(<<
      Entry("default", MapV(<<
        Entry("target", StrV("dev")),
        Entry("outputs", MapV(<<
          Entry("dev", MapV(<<
            Entry("type", StrV("duckdb")),
            Entry("path", StrV("dev.duckdb"))>>))>>))>>))>>))

\* "profiles.yml" is the profile template, "example_model.sql" a bundled
\* template that is no profiles document, "nonexistent.yml" is unknown.
TemplateNames == {"profiles.yml", "example_model.sql", "nonexistent.yml"}

\* get_template(name): [exc, content].
get_template(name) ==
    IF name = "profiles.yml" THEN [exc |-> NoExc, content |-> TemplateText]
    ELSE IF name = "example_model.sql"
    THEN [exc |-> NoExc, content |-> Malformed]
    ELSE [exc |-> "FileNotFoundError", content |-> Malformed]

\* load_template(template_name): [exc, content].
load_template(template_name) ==
    LET validated(got) ==
            IF got.exc # NoExc THEN got
            ELSE IF ~from_yaml(got.content).ok
            THEN [exc |-> "ValueError", content |-> got.content]
            ELSE got
    IN validated(get_template(template_name))

\* init_profile that writes the template before it looks at the file.
init_profile_NoProtection(fs, profile_path, force, template_name) ==
    LET target_path == IF profile_path # None THEN profile_path[1]
                       ELSE get_default_profile_path
        made == mkdir(fs, Parent(target_path))
        written(loaded) ==
            IF loaded.exc # NoExc
            THEN [exc |-> loaded.exc, action |-> "", disk |-> fs]
            ELSE [exc |-> NoExc,
                  action |-> IF exists(made, target_path) THEN "overwritten"
                             ELSE "created",
                  disk |-> write_text(made, target_path, loaded.content)]
    IN written(load_template(template_name))

\* init_profile(profile_path, force=, template_name=): [exc, action, disk];
\* action is the action of the ProfileInitResult when exc is NoExc.
init_profile(fs, profile_path, force, template_name) ==
    LET target_path == IF profile_path # None THEN profile_path[1]
                       ELSE get_default_profile_path
        made == mkdir(fs, Parent(target_path))
        written(loaded) ==
            IF loaded.exc # NoExc
            THEN [exc |-> loaded.exc, action |-> "", disk |-> fs]
            ELSE [exc |-> NoExc,
                  action |-> IF exists(made, target_path) THEN "overwritten"
                             ELSE "created",
                  disk |-> write_text(made, target_path, loaded.content)]
    IN IF exists(fs, target_path) /\ ~force
       THEN [exc |-> "ProfileExistsError", action |-> "", disk |-> fs]
       ELSE written(load_template(template_name))

\* What init_profile can find at ~/.dbt/profiles.yml: no file, a profiles
\* file, a file with other content.
InitProfileDisks ==
    { FreshDisk } \cup
    { write_text(mkdir(FreshDisk, Parent(DEFAULT_PROFILE_PATH)),
                 DEFAULT_PROFILE_PATH, text) : text \in {SampleText, Malformed} }

NoInit ==
    [op |-> "none", profile_path |-> None, force |-> FALSE,
     template_name |-> "", exc |-> NoExc, action |-> "", before |-> FreshDisk]

InitInit ==
    /\ disk \in InitProfileDisks
    /\ doc = EmptyProfiles
    /\ prev = EmptyProfiles
    /\ last = NoInit
    /\ steps = 0

InitProfile ==
    /\ steps < MaxInits
    /\ \E profile_path \in ProfilePathArgs, force \in BOOLEAN, template_name \in TemplateNames :
          \E res \in {init_profile(disk, profile_path, force, template_name)} :
             /\ disk' = res.disk
             /\ last' = [op |-> "init_profile", profile_path |-> profile_path,
                         force |-> force, template_name |-> template_name,
                         exc |-> res.exc, action |-> res.action,
                         before |-> disk]
    /\ steps' = steps + 1
    /\ UNCHANGED <<doc, prev>>

NextInit == InitProfile

SpecInit == InitInit /\ [][NextInit]_vars

InitPath == IF last.profile_path # None THEN last.profile_path[1] ELSE DEFAULT_PROFILE_PATH

\* C25: init_profile on an existing file without force raises
\* ProfileExistsError; on a missing file it writes the template and reports
\* "created"; on an existing file with force it replaces the content with
\* the template and reports "overwritten"; whenever it raises, and so for
\* an invalid or unknown template, every file is as it was.
OverwriteProtection ==
    last.op = "init_profile" =>
        /\ (exists(last.before, InitPath) /\ ~last.force)
             => last.exc = "ProfileExistsError"
        /\ last.exc # NoExc => disk = last.before
        /\ last.template_name = "nonexistent.yml" => last.exc # NoExc
        /\ last.template_name = "example_model.sql" => last.exc # NoExc
        /\ (last.template_name = "profiles.yml"
              /\ ~exists(last.before, InitPath))
             => /\ last.exc = NoExc
                /\ last.action = "created"
                /\ disk.files[InitPath] = Some(TemplateText)
        /\ (last.template_name = "profiles.yml"
              /\ exists(last.before, InitPath) /\ last.force)
             => /\ last.exc = NoExc
                /\ last.action = "overwritten"
                /\ disk.files[InitPath] = Some(TemplateText)

\* A forced second init replaced a file that held something else.
OverwriteProtectionWitness ==
    /\ last.op = "init_profile" /\ last.force /\ last.action = "overwritten"
    /\ exists(last.before, InitPath)
    /\ last.before.files[InitPath] # Some(TemplateText)
    /\ disk.files[InitPath] = Some(TemplateText)
    /\ steps = 2

(***************************************************************************)
(* modules/dbt/passthrough.py and commands/dbt/__init__.py: the project    *)
(* path cache of the dbt passthrough. Every step is one process            *)
(* `brix dbt [--project P] <command>` or a change somebody makes to a      *)
(* project directory between two processes. Here disk.files is defined on  *)
(* DbtPaths; last records the process: its --project, its exit code, the   *)
(* directory dbt was run in (ran), and supplied, the last --project that   *)
(* reached a passthrough.                                                  *)
(***************************************************************************)
MaxRuns == 3

CACHE_DIR == <<"home", ".cache", "brix">>
PROJECT_CACHE_FILE == CACHE_DIR \o <<"dbt_project_path.json">>

\* The working directory of the processes, and the project paths: two
\* absolute ones and one relative to the working directory.
Cwd == <<"work">>
ProjectPaths == {<<"work", "p1">>, <<"work", "p2">>}
ProjectArgs == {None, Some(<<"work", "p1">>), Some(<<"work", "p2">>), Some(<<".", "p1">>)}
DbtPaths == ProjectPaths \cup {PROJECT_CACHE_FILE}

\* dbt was run without a project path.
NoProject == <<>>

\* The exit codes dbt can return.
DbtExitCodes == {0, 2}

\* Path.resolve(): a relative path is taken from the working directory.
resolve(path) == IF path[1] = "." THEN Cwd \o Tail(path) ELSE path

\* Path.exists() and Path.is_dir() of any path.
path_exists(fs, path) == path \in fs.dirs \/ fs.files[path] # None
is_dir(fs, path) == path \in fs.dirs

\* ProjectPathCache(project_path=p).model_dump_json() and
\* ProjectPathCache.model_validate_json(text): [ok, project_path].
model_dump_json(project_path) == [json |-> [project_path |-> project_path]]
model_validate_json(text) ==
    IF text = Malformed THEN [ok |-> FALSE, project_path |-> NoProject]
    ELSE [ok |-> TRUE, project_path |-> text.json.project_path]

\* load_project_cache(): [exc, project_path]; project_path is None or
\* Some(path) when exc is NoExc.
load_project_cache(fs) ==
    IF ~exists(fs, PROJECT_CACHE_FILE)
    THEN [exc |-> NoExc, project_path |-> None]
    ELSE LET cache == model_validate_json(fs.files[PROJECT_CACHE_FILE][1])
         IN IF ~cache.ok THEN [exc |-> NoExc, project_path |-> None]
            ELSE IF ~path_exists(fs, cache.project_path)
            THEN [exc |-> "CachedPathNotFoundError", project_path |-> None]
            ELSE IF ~is_dir(fs, cache.project_path)
            THEN [exc |-> "CachedPathNotFoundError", project_path |-> None]
            ELSE [exc |-> NoExc, project_path |-> Some(cache.project_path)]

\* save_project_cache(project_path): the file system after the call.
save_project_cache(fs, project_path) ==
    write_text(mkdir(fs, CACHE_DIR), PROJECT_CACHE_FILE,
               model_dump_json(resolve(project_path)))

\* run_dbt(args, project_path=) with dbt returning returncode: [code, ran];
\* ran is None when dbt was not started, else Some(cwd) with NoProject for
\* the working directory of the process.
run_dbt(fs, project_path, returncode) ==
    IF project_path # None /\ ~path_exists(fs, project_path[1])
    THEN [code |-> 1, ran |-> None]
    ELSE IF project_path # None /\ ~is_dir(fs, project_path[1])
    THEN [code |-> 1, ran |-> None]
    ELSE [code |-> returncode,
          ran |-> Some(IF project_path # None THEN resolve(project_path[1])
                       ELSE NoProject)]

\* DbtGroup.invoke that does not save the project path it is given.
invoke_NoSave(fs, project, returncode) ==
    IF project # None
    THEN [code |-> run_dbt(fs, project, returncode).code,
          ran |-> run_dbt(fs, project, returncode).ran, disk |-> fs]
    ELSE LET cached == load_project_cache(fs)
         IN IF cached.exc # NoExc
            THEN [code |-> 1, ran |-> None, disk |-> fs]
            ELSE [code |-> run_dbt(fs, cached.project_path, returncode).code,
                  ran |-> run_dbt(fs, cached.project_path, returncode).ran,
                  disk |-> fs]

\* DbtGroup.invoke on a command that is none of brix's own, with the value
\* of --project after option parsing: [code, ran, disk].
invoke(fs, project, returncode) ==
    IF project # None
    THEN LET saved == save_project_cache(fs, project[1])
         IN [code |-> run_dbt(saved, project, returncode).code,
             ran |-> run_dbt(saved, project, returncode).ran, disk |-> saved]
    ELSE LET cached == load_project_cache(fs)
         IN IF cached.exc # NoExc
            THEN [code |-> 1, ran |-> None, disk |-> fs]
            ELSE [code |-> run_dbt(fs, cached.project_path, returncode).code,
                  ran |-> run_dbt(fs, cached.project_path, returncode).ran,
                  disk |-> fs]

\* The --project option of dbt_callback (exists=True, file_okay=False,
\* dir_okay=True, resolve_path=True): [ok, value]; a value that is not an
\* existing directory is a usage error.
project_option(fs, project) ==
    IF project = None THEN [ok |-> TRUE, value |-> None]
    ELSE IF ~is_dir(fs, resolve(project[1])) THEN [ok |-> FALSE, value |-> None]
    ELSE [ok |-> TRUE, value |-> Some(resolve(project[1]))]

\* Both project directories exist, and there is no cache file or one that
\* is not a ProjectPathCache.
DbtDisks ==
    { [dirs |-> ProjectPaths \cup {Cwd},
       files |-> [q \in DbtPaths |-> None]],
      [dirs |-> ProjectPaths \cup {Cwd, CACHE_DIR},
       files |-> [q \in DbtPaths |->
                    IF q = PROJECT_CACHE_FILE THEN Some(Malformed) ELSE None]] }

NoRun ==
    [op |-> "none", project |-> None, code |-> 0, ran |-> None,
     supplied |-> None, before |-> FreshDisk]

InitDbt ==
    /\ disk \in DbtDisks
    /\ doc = EmptyProfiles
    /\ prev = EmptyProfiles
    /\ last = NoRun
    /\ steps = 0

\* brix dbt [--project P] <a command of dbt>.
Passthrough ==
    /\ steps < MaxRuns
    /\ \E project \in ProjectArgs, returncode \in DbtExitCodes :
          LET opt == project_option(disk, project)
              res == invoke(disk, opt.value, returncode)
          IN IF ~opt.ok
             THEN /\ disk' = disk
                  /\ last' = [last EXCEPT !.op = "usage", !.project = project,
                                !.code = 2, !.ran = None, !.before = disk]
             ELSE /\ disk' = res.disk
                  /\ last' = [op |-> "passthrough", project |-> project,
                              code |-> res.code, ran |-> res.ran,
                              supplied |-> IF opt.value # None THEN opt.value
                                           ELSE last.supplied,
                              before |-> disk]
    /\ steps' = steps + 1
    /\ UNCHANGED <<doc, prev>>

\* brix dbt [--project P] setup: one of brix's own commands.
Setup ==
    /\ steps < MaxRuns
    /\ \E project \in ProjectArgs :
          LET opt == project_option(disk, project)
          IN last' = [last EXCEPT !.op = IF opt.ok THEN "setup" ELSE "usage",
                         !.project = project,
                         !.code = IF opt.ok THEN 0 ELSE 2,
                         !.ran = None, !.before = disk]
    /\ steps' = steps + 1
    /\ UNCHANGED <<doc, prev, disk>>

\* Somebody removes a project directory.
RemoveDir ==
    /\ steps < MaxRuns
    /\ \E q \in ProjectPaths :
          /\ is_dir(disk, q)
          /\ disk' = [disk EXCEPT !.dirs = @ \ {q}]
          /\ last' = [last EXCEPT !.op = "rmdir", !.project = Some(q),
                         !.ran = None, !.before = disk]
    /\ steps' = steps + 1
    /\ UNCHANGED <<doc, prev>>

\* Somebody puts a file where there is no project directory.
MakeFile ==
    /\ steps < MaxRuns
    /\ \E q \in ProjectPaths :
          /\ ~path_exists(disk, q)
          /\ disk' = write_text(disk, q, Malformed)
          /\ last' = [last EXCEPT !.op = "touch", !.project = Some(q),
                         !.ran = None, !.before = disk]
    /\ steps' = steps + 1
    /\ UNCHANGED <<doc, prev>>

NextDbt ==
    \/ Passthrough
    \/ Setup
    \/ RemoveDir
    \/ MakeFile

SpecDbt == InitDbt /\ [][NextDbt]_vars

MaxChecks == 2

CHECK_INTERVAL == 24
VERSION_CACHE_FILE == CACHE_DIR \o <<"version_check.json">>

\* __version__, and the tag names GitHub can answer with.
RunningVersion == <<"1.0">>
TagNames == {<<"v", "1.0">>, <<"v", "1.1">>}

\* tag_name.lstrip("v"): without its leading v's.
RECURSIVE lstrip_v(_)
lstrip_v(tag) ==
    IF tag # <<>> /\ Head(tag) = "v" THEN lstrip_v(Tail(tag)) ELSE tag

\* What httpx.get and the validation of its answer can come to: a release,
\* an HTTP error status, a body without tag_name, no connection.
Responses ==
    { [kind |-> "release", tag_name |-> t] : t \in TagNames } \cup
    { [kind |-> k, tag_name |-> <<>>] : k \in {"http_error", "invalid_response", "network_error"} }

\* VersionCache(...).model_dump_json() and
\* VersionCache.model_validate_json(text): None or Some(cache).
version_dump_json(cache) == [json |-> cache]
version_validate_json(text) ==
    IF text = Malformed THEN None ELSE Some(text.json)

\* _load_cache(): None or Some(cache).
load_cache(fs) ==
    IF ~exists(fs, VERSION_CACHE_FILE) THEN None
    ELSE version_validate_json(fs.files[VERSION_CACHE_FILE][1])

\* _should_refresh that also refreshes a cache exactly 24 hours old.
should_refresh_AtLeast(cache, now) ==
    IF cache = None THEN TRUE
    ELSE now - cache[1].last_check >= CHECK_INTERVAL

\* _should_refresh(cache) at the time now.
should_refresh(cache, now) ==
    IF cache = None THEN TRUE
    ELSE now - cache[1].last_check > CHECK_INTERVAL

\* The value check_for_updates returns for the cache it read: None or
\* Some(version).
update_available(cache) ==
    IF cache # None /\ cache[1].latest_version # RunningVersion
    THEN Some(cache[1].latest_version)
    ELSE None

\* No cache file, an unreadable one, or one of an earlier check.
VersionDisks ==
    { [dirs |-> {}, files |-> [q \in {VERSION_CACHE_FILE} |-> None]] } \cup
    { [dirs |-> {CACHE_DIR}, files |-> [q \in {VERSION_CACHE_FILE} |-> Some(text)]] :
        text \in {Malformed} \cup
                 { version_dump_json([last_check |-> t, latest_version |-> v]) :
                     t \in {5, 6, 29}, v \in {<<"1.0">>, <<"1.1">>} } }

NoCheck ==
    [op |-> "check", main |-> "start", refresh |-> "none", now |-> 30,
     cache |-> None, result |-> None, response |-> "none",
     before |-> FreshDisk, found |-> FreshDisk]

InitVersion ==
    /\ disk \in VersionDisks
    /\ doc = EmptyProfiles
    /\ prev = EmptyProfiles
    /\ last = NoCheck
    /\ steps = 0

\* check_for_updates up to thread.start(): the cache is read and the
\* refresh thread is started when the cache is stale.
Check ==
    /\ last.main = "start"
    /\ LET cache == load_cache(disk)
       IN last' = [last EXCEPT !.main = "checked", !.cache = cache,
                      !.before = disk, !.found = disk,
                      !.refresh = IF should_refresh(cache, last.now)
                                  THEN "started" ELSE "none"]
    /\ UNCHANGED <<doc, prev, steps, disk>>

\* check_for_updates from thread.start() to its return.
CheckReturn ==
    /\ last.main = "checked"
    /\ last' = [last EXCEPT !.main = "returned",
                   !.result = update_available(last.cache)]
    /\ UNCHANGED <<doc, prev, steps, disk>>

\* _fetch_and_cache_latest up to the validated release: any failure ends
\* the thread.
Fetch ==
    /\ last.refresh = "started"
    /\ \E resp \in Responses :
          last' = [last EXCEPT !.response = resp,
                      !.refresh = IF resp.kind = "release" THEN "fetched"
                                  ELSE "failed"]
    /\ UNCHANGED <<doc, prev, steps, disk>>

\* _fetch_and_cache_latest from CACHE_DIR.mkdir to the end.
WriteCache ==
    /\ last.refresh = "fetched"
    /\ disk' = write_text(mkdir(disk, CACHE_DIR), VERSION_CACHE_FILE,
                 version_dump_json(
                   [last_check |-> last.now,
                    latest_version |-> lstrip_v(last.response.tag_name)]))
    /\ last' = [last EXCEPT !.refresh = "done"]
    /\ UNCHANGED <<doc, prev, steps>>

\* The process exits after the call returned and the next one starts some
\* hours later. A daemon thread still running dies with the process; one
\* that was about to write leaves the file as it is or cut short.
Exit ==
    /\ steps < MaxChecks
    /\ last.main = "returned"
    /\ \E hours \in {1, 24, 25} :
          last' = [NoCheck EXCEPT !.now = last.now + hours]
    /\ \/ disk' = disk
       \/ /\ last.refresh = "fetched"
          /\ disk' = write_text(mkdir(disk, CACHE_DIR), VERSION_CACHE_FILE,
                                Malformed)
    /\ steps' = steps + 1
    /\ UNCHANGED <<doc, prev>>

NextVersion ==
    \/ Check
    \/ CheckReturn
    \/ Fetch
    \/ WriteCache
    \/ Exit

SpecVersion == InitVersion /\ [][NextVersion]_vars

\* The cache check_for_updates found: missing or unreadable, or its age.
FoundCache == load_cache(last.before)
Stale ==
    \/ ~exists(last.before, VERSION_CACHE_FILE)
    \/ FoundCache = None
    \/ last.now - FoundCache[1].last_check > CHECK_INTERVAL

\* C27: check_for_updates starts the refresh exactly when the cache it
\* found is missing, unreadable or more than 24 hours old; it can return
\* wherever the refresh is; what it returns is the latest_version of the
\* cache it found when that differs from the running version, and nothing
\* otherwise, whatever the refresh wrote meanwhile; a refresh that failed
\* left the file system as it found it.
NonBlockingCheck ==
    /\ last.main # "start" => ((last.refresh # "none") <=> Stale)
    /\ last.main = "checked" => ENABLED CheckReturn
    /\ last.main = "returned" =>
         last.result = IF FoundCache # None
                          /\ FoundCache[1].latest_version # RunningVersion
                       THEN Some(FoundCache[1].latest_version)
                       ELSE None
    /\ last.refresh = "failed" => disk = last.found

\* The call returned the old cached version although the refresh had
\* already written a newer cache.
NonBlockingCheckWitness ==
    /\ last.main = "returned" /\ last.refresh = "done"
    /\ disk # last.before
    /\ last.result # update_available(load_cache(disk))

(***************************************************************************)
(* modules/dbt/profile/prompts.py: the interactive session. Every step is  *)
(* one choice in a menu with the answers the user gives to its prompts.    *)
(* doc is the document the session holds (profiles), prev the document it  *)
(* last wrote, or the one it loaded while it wrote nothing; last says      *)
(* which menu is open (menu), for which profile and output, and from which *)
(* menu the output menu was entered (via). A session left by an exception  *)
(* nothing catches has the menu "crashed".                                 *)
(***************************************************************************)
MaxChoices == 3

\* The try block of a handler: the Editor call returned res, save_profiles
\* follows, and the except clauses catch the classes in caught.
\* [profiles, disk, written, crashed].
TrySave(fs, res, caught) ==
    IF res.exc # NoExc
    THEN [profiles |-> res.profiles, disk |-> fs, written |-> FALSE,
          crashed |-> res.exc \notin caught]
    ELSE LET after(saved) ==
                 IF saved.exc # NoExc
                 THEN [profiles |-> res.profiles, disk |-> fs,
                       written |-> FALSE, crashed |-> saved.exc \notin caught]
                 ELSE [profiles |-> res.profiles, disk |-> saved.disk,
                       written |-> TRUE, crashed |-> FALSE]
         IN after(save_profiles(fs, res.profiles, None))

\* The handler returns without calling the Editor (a cancelled prompt).
Cancelled(fs, profiles) ==
    [profiles |-> profiles, disk |-> fs, written |-> FALSE, crashed |-> FALSE]

\* What the user types for a thread count, and int(threads_str).
ThreadInputs == {"0", "8", "abc"}
parse_int(threads_str) ==
    IF threads_str = "0" THEN [ok |-> TRUE, val |-> 0]
    ELSE IF threads_str = "8" THEN [ok |-> TRUE, val |-> 8]
    ELSE [ok |-> FALSE, val |-> 0]

\* output.path can be read: a field of DuckDbOutput, an extra attribute of
\* a DatabricksOutput that has one, AttributeError otherwise.
HasPathAttr(output) == output.type = "duckdb" \/ Has(output.extra, "path")

\* The head of the loop of _edit_output_loop for an output that exists:
\* the menu that is open after it.
OutputLoopHead(profiles, profile_name, output_name) ==
    IF HasPathAttr(profiles.heap[get_output(profiles, profile_name, output_name).val])
    THEN "output" ELSE "crashed"

\* A profiles.yml whose Databricks output carries a path key: SampleText
\* after `edit --action edit-output --profile a --output prod --path ...`.
EditedText ==
    to_yaml(update_output(from_yaml(SampleText).profiles, "a", "prod",
                          Some("new.duckdb"), None).profiles)

InteractiveDisks ==
    { FreshDisk } \cup
    { write_text(mkdir(FreshDisk, Parent(DEFAULT_PROFILE_PATH)),
                 DEFAULT_PROFILE_PATH, text) : text \in {SampleText, EditedText} }

NoChoice ==
    [op |-> "run_interactive_edit", menu |-> "main", profile |-> "",
     output |-> "", via |-> "main", written |-> FALSE]

\* run_interactive_edit up to the first menu.
InitInteractive ==
    /\ disk \in InteractiveDisks
    /\ doc = LoadOrEmpty(disk, None)
    /\ prev = doc
    /\ last = NoChoice
    /\ steps = 0

\* The handler of the choice op ended with r and the menu m is open next.
Chosen(op, r, m) ==
    /\ steps < MaxChoices
    /\ steps' = steps + 1
    /\ doc' = Collect(r.profiles)
    /\ disk' = r.disk
    /\ prev' = IF r.written THEN Collect(r.profiles) ELSE prev
    /\ last' = [last EXCEPT !.op = op, !.written = r.written,
                   !.menu = IF r.crashed THEN "crashed" ELSE m]

\* Main menu, "Add a new profile".
MenuAddProfile ==
    /\ last.menu = "main"
    /\ \/ Chosen("add_profile", Cancelled(disk, doc), "main")
       \/ \E profile_name \in ProfileNames, kw \in ConfigArgs :
             Chosen("add_profile",
                    TrySave(disk,
                            add_profile(Alloc(doc, DuckDbOutput(kw).obj),
                                        profile_name, "dev", "dev",
                                        Len(doc.heap) + 1),
                            {"ProfileAlreadyExistsError"}),
                    "main")

\* Main menu, "Delete a profile".
MenuDeleteProfile ==
    /\ last.menu = "main"
    /\ \E i \in 1..Len(get_profile_names(doc)), confirmed \in BOOLEAN :
          Chosen("delete_profile",
                 IF ~confirmed THEN Cancelled(disk, doc)
                 ELSE TrySave(disk,
                              delete_profile(doc, get_profile_names(doc)[i]),
                              {"ProfileNotFoundError"}),
                 "main")

\* Main menu, "Add an output to a profile".
MenuAddOutput ==
    /\ last.menu = "main"
    /\ \E i \in 1..Len(get_profile_names(doc)), output_name \in OutputNames, kw \in ConfigArgs :
          Chosen("add_output",
                 TrySave(disk,
                         add_output(Alloc(doc, DuckDbOutput(kw).obj),
                                    get_profile_names(doc)[i], output_name,
                                    Len(doc.heap) + 1),
                         {"ProfileNotFoundError", "OutputAlreadyExistsError"}),
                 "main")

\* Main menu, "Delete an output".
MenuDeleteOutput ==
    /\ last.menu = "main"
    /\ \E i \in 1..Len(get_profile_names(doc)), confirmed \in BOOLEAN :
          LET profile_name == get_profile_names(doc)[i]
              names == get_output_names(doc, profile_name).val
          IN \E j \in 1..Len(names) :
                Chosen("delete_output",
                       IF ~confirmed THEN Cancelled(disk, doc)
                       ELSE TrySave(disk,
                                    delete_output(doc, profile_name, names[j]),
                                    {"ProfileNotFoundError",
                                     "OutputNotFoundError", "ValueError"}),
                       "main")

\* Main menu, "Edit an existing profile": the profile menu opens.
MenuEditProfile ==
    /\ last.menu = "main"
    /\ steps < MaxChoices
    /\ \E i \in 1..Len(get_profile_names(doc)) :
          last' = [last EXCEPT !.op = "edit_profile", !.written = FALSE,
                     !.menu = "profile",
                     !.profile = get_profile_names(doc)[i]]
    /\ steps' = steps + 1
    /\ UNCHANGED <<doc, prev, disk>>

\* Main menu, "Edit an output": the output menu opens.
MenuEditOutput ==
    /\ last.menu = "main"
    /\ \E i \in 1..Len(get_profile_names(doc)) :
          LET profile_name == get_profile_names(doc)[i]
              names == get_output_names(doc, profile_name).val
          IN \E j \in 1..Len(names) :
                /\ steps < MaxChoices
                /\ steps' = steps + 1
                /\ last' = [last EXCEPT !.op = "edit_output",
                               !.written = FALSE,
                               !.menu = OutputLoopHead(doc, profile_name, names[j]),
                               !.profile = profile_name, !.output = names[j],
                               !.via = "main"]
                /\ UNCHANGED <<doc, prev, disk>>

\* Main menu, "Exit".
MenuExit ==
    /\ last.menu = "main"
    /\ Chosen("exit", Cancelled(disk, doc), "exited")

\* Profile menu, "Edit target".
ProfileEditTarget ==
    /\ last.menu = "profile"
    /\ \E new_target \in TargetNames :
          Chosen("target",
                 TrySave(disk, update_profile_target(doc, last.profile, new_target),
                         {"ProfileNotFoundError"}),
                 "profile")

\* Profile menu, "Edit an output": the output menu opens.
ProfileEditOutput ==
    /\ last.menu = "profile"
    /\ steps < MaxChoices
    /\ \E j \in 1..Len(get_output_names(doc, last.profile).val) :
          last' = [last EXCEPT !.op = "edit_output", !.written = FALSE,
                     !.menu = OutputLoopHead(doc, last.profile,
                                  get_output_names(doc, last.profile).val[j]),
                     !.output = get_output_names(doc, last.profile).val[j],
                     !.via = "profile"]
    /\ steps' = steps + 1
    /\ UNCHANGED <<doc, prev, disk>>

\* Profile menu, "Back to main menu".
ProfileBack ==
    /\ last.menu = "profile"
    /\ Chosen("back", Cancelled(disk, doc), "main")

\* Output menu, "Edit path": _update_output_path.
OutputEditPath ==
    /\ last.menu = "output"
    /\ \E new_path \in {":memory:", "new.duckdb"} :
          \E r \in {TrySave(disk,
                           update_output(doc, last.profile, last.output,
                                         Some(new_path), None),
                           {"ProfileNotFoundError", "OutputNotFoundError"})} :
             Chosen("path", r,
                    OutputLoopHead(r.profiles, last.profile, last.output))

\* _update_output_threads for an answered prompt.
update_output_threads(fs, profiles, profile_name, output_name, threads_str) ==
    IF ~parse_int(threads_str).ok THEN Cancelled(fs, profiles)
    ELSE TrySave(fs,
                 update_output(profiles, profile_name, output_name, None,
                               Some(parse_int(threads_str).val)),
                 {"ValueError", "ProfileNotFoundError", "OutputNotFoundError"})

\* Output menu, "Edit threads".
OutputEditThreads ==
    /\ last.menu = "output"
    /\ \E threads_str \in ThreadInputs :
          \E r \in {update_output_threads(disk, doc, last.profile,
                                          last.output, threads_str)} :
             Chosen("threads", r,
                    OutputLoopHead(r.profiles, last.profile, last.output))

\* Output menu, "Back".
OutputBack ==
    /\ last.menu = "output"
    /\ Chosen("back", Cancelled(disk, doc), last.via)

NextInteractive ==
    \/ MenuAddProfile
    \/ MenuDeleteProfile
    \/ MenuAddOutput
    \/ MenuDeleteOutput
    \/ MenuEditProfile
    \/ MenuEditOutput
    \/ MenuExit
    \/ ProfileEditTarget
    \/ ProfileEditOutput
    \/ ProfileBack
    \/ OutputEditPath
    \/ OutputEditThreads
    \/ OutputBack

SpecInteractive == InitInteractive /\ [][NextInteractive]_vars

AtMenu == last.menu \in {"main", "profile", "output"}

\* C28: whenever a menu of the interactive session is open, the document in
\* memory is the document last written to the file, or the one loaded (the
\* empty one without a file) while nothing was written.
SaveOnChange == AtMenu => doc = prev

(***************************************************************************)
(* Claims on the Editor session (Spec) that concern instances shared       *)
(* between outputs, and the save of what the Editor returns.               *)
(***************************************************************************)
\* The (profile, output) names of a document.
OutputKeys(self) ==
    UNION {{<<self.root[i].k, self.root[i].v.outputs[j].k>> :
               j \in 1..Len(self.root[i].v.outputs)} : i \in 1..Len(self.root)}

\* C29: a successful update_output leaves every output other than the named
\* one with the fields it had, and every profile with its target and its
\* output names.
UpdateOutputLocal ==
    (last.op = "update_output" /\ last.exc = NoExc) =>
        /\ get_profile_names(doc) = get_profile_names(prev)
        /\ \A i \in 1..Len(doc.root) :
              /\ doc.root[i].v.target = prev.root[i].v.target
              /\ Keys(doc.root[i].v.outputs) = Keys(prev.root[i].v.outputs)
        /\ \A key \in OutputKeys(prev) \ {<<last.name, last.output_name>>} :
              OutputOf(doc, key[1], key[2]) = OutputOf(prev, key[1], key[2])

\* C30: the document of the session, parsed or empty at the start and then
\* changed by successful Editor calls only, is always accepted by
\* save_profiles.
AlwaysPersistable == save_profiles(disk, doc, None).exc = NoExc

====
